---- MODULE Spec2Model ----
(***************************************************************************)
(* A model of the framework-agnostic form engine of                        *)
(* src/src/components/demo.tsx: the pure functions evaluateCondition and   *)
(* validateField, and the FormEngine class (values, errors, touched,       *)
(* submission flags, the asynchronous handleSubmit).                       *)
(***************************************************************************)
EXTENDS Integers, Sequences, FiniteSets, TLC

(***************************************************************************)
(* JavaScript values.  A value is a record [t, n, s, e]: t is the result  *)
(* of typeof (with "null" and "array" told apart), n the number (or 0/1 of *)
(* a boolean), s the characters of a string, e the elements of an array    *)
(* (values that are not arrays).  NaN is the number whose s is not empty.  *)
(***************************************************************************)
Undef == [t |-> "undefined", n |-> 0, s |-> <<>>, e |-> <<>>]

Null == [t |-> "null", n |-> 0, s |-> <<>>, e |-> <<>>]

Bool(b) == [t |-> "boolean", n |-> IF b THEN 1 ELSE 0, s |-> <<>>, e |-> <<>>]

Num(k) == [t |-> "number", n |-> k, s |-> <<>>, e |-> <<>>]

NaN == [t |-> "number", n |-> 0, s |-> <<"N", "a", "N">>, e |-> <<>>]

Str(cs) == [t |-> "string", n |-> 0, s |-> cs, e |-> <<>>]

Arr(es) == [t |-> "array", n |-> 0, s |-> <<>>, e |-> es]

IsNaN(v) == v.t = "number" /\ v.s # <<>>

\* SameValueZero, the comparison of Array.prototype.includes: strict equality,
\* except that NaN is the same as NaN.
SameValueZero(a, b) == a.t # "array" /\ a = b

\* Array.prototype.includes(v)
Includes(arr, v) == \E i \in 1..Len(arr.e) : SameValueZero(arr.e[i], v)

IsSpace(c) == c = " "

RECURSIVE TrimStart(_)
TrimStart(cs) ==
  IF cs # <<>> /\ IsSpace(Head(cs)) THEN TrimStart(Tail(cs)) ELSE cs

RECURSIVE TrimEnd(_)
TrimEnd(cs) ==
  IF cs # <<>> /\ IsSpace(cs[Len(cs)])
    THEN TrimEnd(SubSeq(cs, 1, Len(cs) - 1))
    ELSE cs

\* String.prototype.trim
Trim(cs) == TrimEnd(TrimStart(cs))

Digit(d) == <<"0", "1", "2", "3", "4", "5", "6", "7", "8", "9">>[d + 1]

RECURSIVE Decimal(_)
Decimal(k) ==
  IF k < 10 THEN <<Digit(k)>> ELSE Decimal(k \div 10) \o <<Digit(k % 10)>>

\* String(value) of a value that is not an array.
PrimitiveString(v) ==
  CASE v.t = "string" -> v.s
    [] v.t = "number" -> IF IsNaN(v) THEN v.s
                         ELSE IF v.n < 0 THEN <<"-">> \o Decimal(0 - v.n)
                         ELSE Decimal(v.n)
    [] v.t = "boolean" -> IF v.n = 1 THEN <<"t", "r", "u", "e">>
                                     ELSE <<"f", "a", "l", "s", "e">>
    [] v.t = "null" -> <<"n", "u", "l", "l">>
    [] v.t = "undefined" -> <<"u", "n", "d", "e", "f", "i", "n", "e", "d">>

\* Array.prototype.join: null and undefined elements give the empty string.
RECURSIVE Join(_)
Join(es) ==
  LET Element(e) == IF e.t \in {"null", "undefined"} THEN <<>> ELSE PrimitiveString(e)
  IN IF es = <<>> THEN <<>>
     ELSE IF Len(es) = 1 THEN Element(es[1])
     ELSE Element(es[1]) \o <<",">> \o Join(Tail(es))

\* String(value): the characters of the string form of a value.
StringOf(v) == IF v.t = "array" THEN Join(v.e) ELSE PrimitiveString(v)

IsDigit(c) == c \in {"0", "1", "2", "3", "4", "5", "6", "7", "8", "9"}

DigitValue(c) == CHOOSE d \in 0..9 : Digit(d) = c

RECURSIVE ParseDigits(_, _)
ParseDigits(cs, acc) ==
  IF cs = <<>> THEN acc ELSE ParseDigits(Tail(cs), 10 * acc + DigitValue(Head(cs)))

\* The number a string of decimal digits stands for, NaN for any other string.
ParseUnsigned(ds) ==
  IF ds # <<>> /\ \A i \in 1..Len(ds) : IsDigit(ds[i])
    THEN [nan |-> FALSE, n |-> ParseDigits(ds, 0)]
    ELSE [nan |-> TRUE, n |-> 0]

Negated(x) == [nan |-> x.nan, n |-> 0 - x.n]

\* The number a trimmed string stands for: "" is 0, a leading "-" negates.
ParseNumber(cs) ==
  IF cs = <<>> THEN [nan |-> FALSE, n |-> 0]
  ELSE IF Head(cs) = "-" THEN Negated(ParseUnsigned(Tail(cs)))
  ELSE ParseUnsigned(cs)

\* ToNumber as the relational operators apply it to an operand:
\* [nan |-> TRUE] when the operand converts to NaN.
ToNumber(v) ==
  CASE v.t = "number" -> [nan |-> IsNaN(v), n |-> v.n]
    [] v.t = "boolean" -> [nan |-> FALSE, n |-> v.n]
    [] v.t = "null" -> [nan |-> FALSE, n |-> 0]
    [] v.t = "undefined" -> [nan |-> TRUE, n |-> 0]
    [] v.t \in {"string", "array"} -> ParseNumber(Trim(StringOf(v)))

\* The number a value of type number stands for.
NumberOf(v) == [nan |-> IsNaN(v), n |-> v.n]

\* Less that also holds for equal operands.
LessOrEqual(x, y) == ~x.nan /\ ~y.nan /\ x.n <= y.n

\* x < y for two numbers: a comparison with NaN is false.
Less(x, y) == ~x.nan /\ ~y.nan /\ x.n < y.n

\* a == b : a number and a string are compared as numbers.
LooseEquals(a, b) ==
  \/ (a.t # "array" /\ ~IsNaN(a) /\ a = b)
  \/ ({a.t, b.t} = {"number", "string"} /\ LessOrEqual(ToNumber(a), ToNumber(b))
        /\ LessOrEqual(ToNumber(b), ToNumber(a)))

\* a === b : same type and same value; NaN equals nothing; two arrays are
\* equal only when they are the same object, and an array held by the form is
\* never the schema's literal.
StrictEquals(a, b) == a.t # "array" /\ ~IsNaN(a) /\ a = b

(***************************************************************************)
(* Conditions.  A field's visibleWhen / enabledWhen is absent, one         *)
(* condition, or an array of conditions.                                   *)
(***************************************************************************)
NoCondition == [form |-> "absent", list |-> <<>>]

One(c) == [form |-> "single", list |-> <<c>>]

Many(cs) == [form |-> "array", list |-> cs]

Cond(f, o, v) == [field |-> f, op |-> o, value |-> v]

\* formValues[cond.field]: undefined for a key the mapping does not hold.
Lookup(formValues, id) ==
  IF id \in DOMAIN formValues THEN formValues[id] ELSE Undef

\* EvalOne whose relational operators do not test the type of the field's
\* value.
EvalOneCoercing(cond, formValues) ==
  LET fieldValue == Lookup(formValues, cond.field)
  IN CASE cond.op = "equals" -> StrictEquals(fieldValue, cond.value)
       [] cond.op = "notEquals" -> ~StrictEquals(fieldValue, cond.value)
       [] cond.op = "in" -> cond.value.t = "array" /\ Includes(cond.value, fieldValue)
       [] cond.op = "greaterThan" -> Less(ToNumber(cond.value), ToNumber(fieldValue))
       [] cond.op = "lessThan" -> Less(ToNumber(fieldValue), ToNumber(cond.value))
       [] OTHER -> TRUE

\* EvalOne that fails a condition whose operator it does not know.
EvalOneFailsClosed(cond, formValues) ==
  LET fieldValue == Lookup(formValues, cond.field)
      bound == ToNumber(cond.value)
  IN CASE cond.op = "equals" -> StrictEquals(fieldValue, cond.value)
       [] cond.op = "notEquals" -> ~StrictEquals(fieldValue, cond.value)
       [] cond.op = "in" -> cond.value.t = "array" /\ Includes(cond.value, fieldValue)
       [] cond.op = "greaterThan" ->
            fieldValue.t = "number" /\ Less(bound, NumberOf(fieldValue))
       [] cond.op = "lessThan" ->
            fieldValue.t = "number" /\ Less(NumberOf(fieldValue), bound)
       [] OTHER -> FALSE

EvalOne(cond, formValues) ==
  LET fieldValue == Lookup(formValues, cond.field)
      bound == ToNumber(cond.value)
  IN CASE cond.op = "equals" -> StrictEquals(fieldValue, cond.value)
       [] cond.op = "notEquals" -> ~StrictEquals(fieldValue, cond.value)
       [] cond.op = "in" -> cond.value.t = "array" /\ Includes(cond.value, fieldValue)
       [] cond.op = "greaterThan" ->
            fieldValue.t = "number" /\ Less(bound, NumberOf(fieldValue))
       [] cond.op = "lessThan" ->
            fieldValue.t = "number" /\ Less(NumberOf(fieldValue), bound)
       [] OTHER -> TRUE

\* evaluateCondition that is satisfied by any one of its conditions.
evaluateConditionAny(condition, formValues) ==
  \/ condition.form = "absent"
  \/ \E i \in 1..Len(condition.list) : EvalOne(condition.list[i], formValues)

evaluateCondition(condition, formValues) ==
  \/ condition.form = "absent"
  \/ \A i \in 1..Len(condition.list) : EvalOne(condition.list[i], formValues)

(***************************************************************************)
(* Validation rules.  required is absent, a boolean or a message string;   *)
(* a threshold rule carries a value and a message; a pattern names one of  *)
(* the regular expressions of Matches; validate names one of the custom    *)
(* predicates of CustomResult.                                             *)
(***************************************************************************)
NoRequired == [kind |-> "absent", b |-> FALSE, msg |-> ""]

RequiredFlag(b) == [kind |-> "boolean", b |-> b, msg |-> ""]

RequiredMsg(m) == [kind |-> "string", b |-> FALSE, msg |-> m]

NoRule == [on |-> FALSE, value |-> 0, message |-> ""]

Rule(v, m) == [on |-> TRUE, value |-> v, message |-> m]

NoPattern == [on |-> FALSE, re |-> "", message |-> ""]

Pattern(r, m) == [on |-> TRUE, re |-> r, message |-> m]

NoRules ==
  [required |-> NoRequired, minLength |-> NoRule, maxLength |-> NoRule,
   min |-> NoRule, max |-> NoRule, pattern |-> NoPattern, validate |-> "absent"]

\* RegExp.prototype.test for the regular expressions the schemas use:
\* "digits" is /^[0-9]+$/ and "hasX" is /x/.
Matches(re, cs) ==
  CASE re = "digits" -> cs # <<>> /\ \A i \in 1..Len(cs) : IsDigit(cs[i])
    [] re = "hasX" -> \E i \in 1..Len(cs) : cs[i] = "x"
    [] OTHER -> TRUE

\* What a custom predicate returns for (value, formValues): a boolean, a
\* message string, undefined, null, or a number; or what it raises ("thrown",
\* with the failure in msg).
CustomResult(fn, value, formValues) ==
  CASE fn = "true" -> [t |-> "boolean", b |-> TRUE, msg |-> ""]
    [] fn = "false" -> [t |-> "boolean", b |-> FALSE, msg |-> ""]
    [] fn = "message" -> [t |-> "string", b |-> FALSE, msg |-> "Custom failed"]
    [] fn = "undefined" -> [t |-> "undefined", b |-> FALSE, msg |-> ""]
    [] fn = "null" -> [t |-> "null", b |-> FALSE, msg |-> ""]
    [] fn = "one" -> [t |-> "number", b |-> FALSE, msg |-> ""]
    [] fn = "sameAsA" ->
         IF StrictEquals(value, Lookup(formValues, "a"))
           THEN [t |-> "boolean", b |-> TRUE, msg |-> ""]
           ELSE [t |-> "string", b |-> FALSE, msg |-> "Must match A"]
    [] fn = "raisesOnX" ->
         IF value = Str(<<"x">>)
           THEN [t |-> "thrown", b |-> FALSE, msg |-> "P1"]
           ELSE [t |-> "boolean", b |-> TRUE, msg |-> ""]
    [] fn = "notZ" ->
         IF value = Str(<<"z">>)
           THEN [t |-> "boolean", b |-> FALSE, msg |-> ""]
           ELSE [t |-> "boolean", b |-> TRUE, msg |-> ""]
    [] OTHER -> [t |-> "undefined", b |-> FALSE, msg |-> ""]

\* The result of validateField: null, or a message.
Pass == [isNull |-> TRUE, msg |-> ""]

Fail(m) == [isNull |-> FALSE, msg |-> m]

\* JavaScript truthiness of a rules.required value and of a validation result.
RequiredOn(r) == (r.kind = "boolean" /\ r.b) \/ (r.kind = "string" /\ r.msg # "")

Truthy(result) == ~result.isNull /\ result.msg # ""

\* IsEmptyValue without the trimming clause: a whitespace-only string counts
\* as a value.
IsEmptyValueUntrimmed(value) ==
  \/ value.t = "null"
  \/ value.t = "undefined"
  \/ (value.t = "string" /\ value.s = <<>>)
  \/ (value.t = "array" /\ Len(value.e) = 0)

\* The emptiness test of the required rule.
IsEmptyValue(value) ==
  \/ value.t = "null"
  \/ value.t = "undefined"
  \/ (value.t = "string" /\ value.s = <<>>)
  \/ (value.t = "array" /\ Len(value.e) = 0)
  \/ (value.t = "string" /\ Trim(value.s) = <<>>)

\* The test that skips the remaining rules.
SkipsRemaining(value) ==
  \/ value.t = "null"
  \/ value.t = "undefined"
  \/ (value.t = "string" /\ value.s = <<>>)

\* isHidden without the visibility test: a hidden field is validated like any other.
isHiddenNever(field, formValues) == FALSE

\* The visibility test validateField starts with.
isHidden(field, formValues) ==
  field.visibleWhen.form # "absent" /\ ~evaluateCondition(field.visibleWhen, formValues)

\* validateField returns result before it reaches the custom predicate.
Return(result) == [returned |-> TRUE, result |-> result]

\* validateBuiltIn with the pattern rule tested before the length and range
\* rules.
validateBuiltInPatternFirst(field, value, formValues) ==
  LET rules == field.rules
  IN
  IF ~field.hasRules THEN Return(Pass)
  ELSE IF isHidden(field, formValues) THEN Return(Pass)
  ELSE IF RequiredOn(rules.required) /\ IsEmptyValue(value)
    THEN IF rules.required.kind = "string"
           THEN Return(Fail(rules.required.msg))
           ELSE Return(Fail(field.label \o " is required"))
  ELSE IF SkipsRemaining(value) THEN Return(Pass)
  ELSE IF rules.pattern.on
          /\ ~Matches(rules.pattern.re, StringOf(value))
    THEN Return(Fail(rules.pattern.message))
  ELSE IF rules.minLength.on /\ value.t = "string"
          /\ Len(value.s) < rules.minLength.value
    THEN Return(Fail(rules.minLength.message))
  ELSE IF rules.maxLength.on /\ value.t = "string"
          /\ Len(value.s) > rules.maxLength.value
    THEN Return(Fail(rules.maxLength.message))
  ELSE IF rules.min.on /\ value.t = "number"
          /\ Less(NumberOf(value), NumberOf(Num(rules.min.value)))
    THEN Return(Fail(rules.min.message))
  ELSE IF rules.max.on /\ value.t = "number"
          /\ Less(NumberOf(Num(rules.max.value)), NumberOf(value))
    THEN Return(Fail(rules.max.message))
  ELSE [returned |-> FALSE, result |-> Pass]

\* The part of validateField before the custom predicate: either it returns
\* (null or a message), or control goes on to the custom predicate.
validateBuiltIn(field, value, formValues) ==
  LET rules == field.rules
  IN
  IF ~field.hasRules THEN Return(Pass)
  ELSE IF isHidden(field, formValues) THEN Return(Pass)
  ELSE IF RequiredOn(rules.required) /\ IsEmptyValue(value)
    THEN IF rules.required.kind = "string"
           THEN Return(Fail(rules.required.msg))
           ELSE Return(Fail(field.label \o " is required"))
  ELSE IF SkipsRemaining(value) THEN Return(Pass)
  ELSE IF rules.minLength.on /\ value.t = "string"
          /\ Len(value.s) < rules.minLength.value
    THEN Return(Fail(rules.minLength.message))
  ELSE IF rules.maxLength.on /\ value.t = "string"
          /\ Len(value.s) > rules.maxLength.value
    THEN Return(Fail(rules.maxLength.message))
  ELSE IF rules.min.on /\ value.t = "number"
          /\ Less(NumberOf(value), NumberOf(Num(rules.min.value)))
    THEN Return(Fail(rules.min.message))
  ELSE IF rules.max.on /\ value.t = "number"
          /\ Less(NumberOf(Num(rules.max.value)), NumberOf(value))
    THEN Return(Fail(rules.max.message))
  ELSE IF rules.pattern.on
          /\ ~Matches(rules.pattern.re, StringOf(value))
    THEN Return(Fail(rules.pattern.message))
  ELSE [returned |-> FALSE, result |-> Pass]

\* How many times one call of validateField invokes the custom predicate.
customCalls(field, value, formValues) ==
  IF validateBuiltIn(field, value, formValues).returned THEN 0
  ELSE IF field.rules.validate # "absent" THEN 1
  ELSE 0

\* The custom predicate rule, reached when no earlier rule returned.
validateCustom(early, custom, field) ==
  IF early.returned THEN early.result
  ELSE IF field.rules.validate # "absent"
          /\ ~(custom.t = "boolean" /\ custom.b)
    THEN IF custom.t = "string" THEN Fail(custom.msg) ELSE Fail("Validation failed")
  ELSE Pass

validateField(field, value, formValues) ==
  validateCustom(validateBuiltIn(field, value, formValues),
                 CustomResult(field.rules.validate, value, formValues), field)

\* The failure validateField lets through from the custom predicate it
\* called: "" when the predicate is not called or returns.
thrownBy(field, value, formValues) ==
  IF customCalls(field, value, formValues) = 1
       /\ CustomResult(field.rules.validate, value, formValues).t = "thrown"
    THEN CustomResult(field.rules.validate, value, formValues).msg
  ELSE ""

(***************************************************************************)
(* Schemas.  A schema is [order, fields]: order is Object.keys of the      *)
(* fields mapping, fields maps each identifier to its definition.          *)
(***************************************************************************)
FieldIds == {"a", "b"}

Field(lbl, dflt, hasRules, rules, vis, en) ==
  [label |-> lbl, defaultValue |-> dflt, hasRules |-> hasRules, rules |-> rules,
   visibleWhen |-> vis, enabledWhen |-> en]

\* a drives the visibility of b (shown for a = 3 only); b also names itself
\* in enabledWhen.
SchemaOne ==
  [order |-> <<"a", "b">>,
   fields |->
     [a |-> Field("A", Num(2), TRUE,
                  [NoRules EXCEPT !.required = RequiredMsg("A required"),
                                  !.min = Rule(2, "Min 2")],
                  NoCondition, NoCondition),
      b |-> Field("B", Undef, TRUE,
                  [NoRules EXCEPT !.required = RequiredFlag(TRUE),
                                  !.minLength = Rule(2, "Too short")],
                  Many(<<Cond("a", "greaterThan", Num(2)),
                         Cond("a", "lessThan", Num(4))>>),
                  One(Cond("b", "notEquals", Str(<<"z">>))))]]

\* A second schema: b is always visible, a is enabled for b = "x".
SchemaTwo ==
  [order |-> <<"b", "a">>,
   fields |->
     [b |-> Field("B", Str(<<"x", "y">>), TRUE,
                  [NoRules EXCEPT !.required = RequiredMsg("B required")],
                  NoCondition, NoCondition),
      a |-> Field("A", Num(3), TRUE,
                  [NoRules EXCEPT !.min = Rule(2, "Min 2")],
                  NoCondition, One(Cond("b", "equals", Str(<<"x">>))))]]

\* The engine is constructed on SchemaOne and may be switched to SchemaTwo.
NewSchemas == {SchemaTwo}

\* The values a caller writes to each field, and the initial values a caller
\* passes to the constructor (a partial mapping).
InputValues(id) ==
  CASE id = "a" -> {Num(1), Num(2), Num(3)}
    [] id = "b" -> {Str(<<"x">>), Str(<<"x", "y">>)}

InitialValueChoices == {[a |-> Num(3)]}

ExternalErrors == {"Taken"}

CallbackFailures == {"E1", "E2"}

Range(seq) == {seq[i] : i \in 1..Len(seq)}

Without(f, k) == [x \in DOMAIN f \ {k} |-> f[x]]

Put(f, k, v) == [x \in DOMAIN f \cup {k} |-> IF x = k THEN v ELSE f[x]]

\* A spread in which the keys of the first object win.
SpreadBaseWins(base, over) ==
  [x \in DOMAIN base \cup DOMAIN over |-> IF x \in DOMAIN base THEN base[x] ELSE over[x]]

\* { ...base, ...over }
Spread(base, over) ==
  [x \in DOMAIN base \cup DOMAIN over |-> IF x \in DOMAIN over THEN over[x] ELSE base[x]]

\* The values mapping is held as a total function over FieldIds: a key the
\* object does not hold reads as undefined.
Total(partial) == [id \in FieldIds |-> Lookup(partial, id)]

\* JSON.stringify of a value that is not an array: NaN gives null.
JsonPrimitive(v) ==
  CASE v.t = "string" -> <<"\"">> \o v.s \o <<"\"">>
    [] v.t = "number" -> IF IsNaN(v) THEN <<"n", "u", "l", "l">> ELSE PrimitiveString(v)
    [] v.t = "boolean" -> PrimitiveString(v)
    [] v.t \in {"null", "undefined"} -> <<"n", "u", "l", "l">>

RECURSIVE JsonElements(_)
JsonElements(es) ==
  IF es = <<>> THEN <<>>
  ELSE IF Len(es) = 1 THEN JsonPrimitive(es[1])
  ELSE JsonPrimitive(es[1]) \o <<",">> \o JsonElements(Tail(es))

JsonValue(v) ==
  IF v.t = "array" THEN <<"[">> \o JsonElements(v.e) \o <<"]">> ELSE JsonPrimitive(v)

JsonProperty(key, v) == <<"\"", key, "\"", ":">> \o JsonValue(v)

\* The properties of an object, in key order: a property whose value is
\* undefined is left out.
RECURSIVE JsonProperties(_, _)
JsonProperties(object, keys) ==
  IF keys = <<>> THEN <<>>
  ELSE IF Lookup(object, Head(keys)) = Undef THEN JsonProperties(object, Tail(keys))
  ELSE IF JsonProperties(object, Tail(keys)) = <<>>
    THEN JsonProperty(Head(keys), object[Head(keys)])
  ELSE JsonProperty(Head(keys), object[Head(keys)])
         \o <<",">> \o JsonProperties(object, Tail(keys))

\* The keys of the values object are those of initialValues, in the same
\* order, followed by the keys written since; a key that one of the two
\* objects lacks reads undefined in it.
KeyOrder == <<"a", "b">>

\* JSON.stringify(object)
stringify(object) == <<"{">> \o JsonProperties(object, KeyOrder) \o <<"}">>

isDirty(st, initial) == stringify(st.values) # stringify(initial)

\* getDefaultValues that stops after the first field of the schema.
getDefaultValuesFirstOnly(sch) ==
  [id \in {x \in {Head(sch.order)} : sch.fields[x].defaultValue # Undef}
     |-> sch.fields[id].defaultValue]

getDefaultValues(sch) ==
  [id \in {x \in Range(sch.order) : sch.fields[x].defaultValue # Undef}
     |-> sch.fields[id].defaultValue]

emptyState(initial) ==
  [values |-> Total(initial), errors |-> <<>>, touched |-> [id \in FieldIds |-> FALSE],
   isSubmitting |-> FALSE, isValidating |-> FALSE, submitCount |-> 0]

isFieldVisible(sch, st, fieldId) ==
  /\ fieldId \in Range(sch.order)
  /\ evaluateCondition(sch.fields[fieldId].visibleWhen, st.values)

isFieldEnabled(sch, st, fieldId) ==
  /\ fieldId \in Range(sch.order)
  /\ evaluateCondition(sch.fields[fieldId].enabledWhen, st.values)

\* getVisibleFields without the visibility filter.
getVisibleFieldsUnfiltered(sch, st) == sch.order

getVisibleFields(sch, st) ==
  LET Test(fieldId) == isFieldVisible(sch, st, fieldId) IN SelectSeq(sch.order, Test)

getEnabledFields(sch, st) ==
  LET Test(fieldId) == isFieldEnabled(sch, st, fieldId) IN SelectSeq(sch.order, Test)

\* One run of a synchronous piece of the engine: the state it leaves, what it
\* returns, and the snapshots it handed to the observers, in order.
Out(st, ret, log) == [st |-> st, ret |-> ret, log |-> log]

\* validateSingleField that leaves an earlier error in place when the field passes.
validateSingleFieldKeepsError(sch, st, fieldId) ==
  IF fieldId \notin Range(sch.order) THEN Out(st, TRUE, <<>>)
  ELSE LET error == validateField(sch.fields[fieldId], st.values[fieldId], st.values)
           failed == [st EXCEPT !.errors = Put(st.errors, fieldId, error.msg)]
       IN IF Truthy(error) THEN Out(failed, FALSE, <<failed>>)
                           ELSE Out(st, TRUE, <<st>>)

validateSingleField(sch, st, fieldId) ==
  IF fieldId \notin Range(sch.order) THEN Out(st, TRUE, <<>>)
  ELSE LET error == validateField(sch.fields[fieldId], st.values[fieldId], st.values)
           failed == [st EXCEPT !.errors = Put(st.errors, fieldId, error.msg)]
           passed == [st EXCEPT !.errors = Without(st.errors, fieldId)]
       IN IF Truthy(error) THEN Out(failed, FALSE, <<failed>>)
                           ELSE Out(passed, TRUE, <<passed>>)

\* One run of validateAllFields: as Out, with the failure it let through
\* ("" when it returned).
Validated(st, ret, log, thrown) == [st |-> st, ret |-> ret, log |-> log, thrown |-> thrown]

\* The failure that ends the loop over the visible fields: that of the first
\* field whose validation raises.
RECURSIVE firstThrown(_, _, _)
firstThrown(sch, fieldIds, values) ==
  IF fieldIds = <<>> THEN ""
  ELSE IF thrownBy(sch.fields[Head(fieldIds)], values[Head(fieldIds)], values) # ""
    THEN thrownBy(sch.fields[Head(fieldIds)], values[Head(fieldIds)], values)
  ELSE firstThrown(sch, Tail(fieldIds), values)

\* validateAllFields that adds the new errors to the old mapping.
validateAllFieldsMerges(sch, st) ==
  LET validating == [st EXCEPT !.isValidating = TRUE]
      visibleFields == getVisibleFields(sch, validating)
      Error(fieldId) ==
        validateField(sch.fields[fieldId], validating.values[fieldId], validating.values)
      newErrors ==
        [fieldId \in {x \in Range(visibleFields) : Truthy(Error(x))} |-> Error(fieldId).msg]
      done == [validating EXCEPT !.errors = Spread(st.errors, newErrors),
                                 !.isValidating = FALSE]
  IN Validated(done, DOMAIN done.errors = {}, <<validating, done>>, "")

\* validateAllFields that reports the form valid whatever it found.
validateAllFieldsAlwaysValid(sch, st) ==
  LET validating == [st EXCEPT !.isValidating = TRUE]
      visibleFields == getVisibleFields(sch, validating)
      Error(fieldId) ==
        validateField(sch.fields[fieldId], validating.values[fieldId], validating.values)
      newErrors ==
        [fieldId \in {x \in Range(visibleFields) : Truthy(Error(x))} |-> Error(fieldId).msg]
      done == [validating EXCEPT !.errors = newErrors, !.isValidating = FALSE]
  IN Validated(done, TRUE, <<validating, done>>, "")

\* A failure raised in the loop leaves validateAllFields at once: the pass
\* has set isValidating and notified, and nothing else.
validateAllFields(sch, st) ==
  LET validating == [st EXCEPT !.isValidating = TRUE]
      visibleFields == getVisibleFields(sch, validating)
      Error(fieldId) ==
        validateField(sch.fields[fieldId], validating.values[fieldId], validating.values)
      newErrors ==
        [fieldId \in {x \in Range(visibleFields) : Truthy(Error(x))} |-> Error(fieldId).msg]
      done == [validating EXCEPT !.errors = newErrors, !.isValidating = FALSE]
  IN IF firstThrown(sch, visibleFields, validating.values) # ""
       THEN Validated(validating, FALSE, <<validating>>,
                      firstThrown(sch, visibleFields, validating.values))
     ELSE Validated(done, DOMAIN newErrors = {}, <<validating, done>>, "")

\* fieldDependsOn that looks at visibleWhen only.
fieldDependsOnVisibleWhenOnly(field, targetFieldId) ==
  /\ field.visibleWhen.form # "absent"
  /\ \E i \in 1..Len(field.visibleWhen.list) :
       field.visibleWhen.list[i].field = targetFieldId

fieldDependsOn(field, targetFieldId) ==
  LET checkCondition(condition) ==
        /\ condition.form # "absent"
        /\ \E i \in 1..Len(condition.list) : condition.list[i].field = targetFieldId
  IN checkCondition(field.visibleWhen) \/ checkCondition(field.enabledWhen)

RECURSIVE revalidateFrom(_, _, _, _)
revalidateFrom(sch, todo, run, changedFieldId) ==
  IF todo = <<>> THEN run
  ELSE LET fieldId == Head(todo)
           hasDependency == fieldDependsOn(sch.fields[fieldId], changedFieldId)
           one == validateSingleField(sch, run.st, fieldId)
       IN IF hasDependency /\ run.st.touched[fieldId]
            THEN revalidateFrom(sch, Tail(todo), Out(one.st, TRUE, run.log \o one.log),
                                changedFieldId)
            ELSE revalidateFrom(sch, Tail(todo), run, changedFieldId)

revalidateDependentFields(sch, st, changedFieldId) ==
  revalidateFrom(sch, sch.order, Out(st, TRUE, <<>>), changedFieldId)

(***************************************************************************)
(* The operations of FormEngine, as functions of the state they start in.  *)
(***************************************************************************)
\* setValue that also marks the field touched.
setValueMarksTouched(sch, st, fieldId, value) ==
  LET written == [st EXCEPT !.values[fieldId] = value,
                            !.errors = Without(st.errors, fieldId),
                            !.touched[fieldId] = TRUE]
      run == revalidateDependentFields(sch, written, fieldId)
  IN Out(run.st, TRUE, run.log \o <<run.st>>)

setValue(sch, st, fieldId, value) ==
  LET written == [st EXCEPT !.values[fieldId] = value,
                            !.errors = Without(st.errors, fieldId)]
      run == revalidateDependentFields(sch, written, fieldId)
  IN Out(run.st, TRUE, run.log \o <<run.st>>)

\* setValues that leaves the errors mapping as it is.
setValuesKeepsErrors(st, map) ==
  LET merged == [st EXCEPT !.values = Spread(st.values, map)]
  IN Out(merged, TRUE, <<merged>>)

setValues(st, map) ==
  LET merged == [st EXCEPT !.values = Spread(st.values, map), !.errors = <<>>]
  IN Out(merged, TRUE, <<merged>>)

\* this.state.values[fieldId]
getValue(st, fieldId) == st.values[fieldId]

\* setTouched that records an error when the field it marks is missing its
\* required value.
setTouchedValidates(st, fieldId, flag) ==
  LET marked == [st EXCEPT !.touched[fieldId] = flag,
                           !.errors = IF flag /\ IsEmptyValue(st.values[fieldId])
                                        THEN Put(st.errors, fieldId, "Required")
                                        ELSE st.errors]
  IN Out(marked, TRUE, <<marked>>)

setTouched(st, fieldId, flag) ==
  LET marked == [st EXCEPT !.touched[fieldId] = flag] IN Out(marked, TRUE, <<marked>>)

setTouchedMultiple(st, fieldIds) ==
  LET marked == [st EXCEPT !.touched =
                   [id \in FieldIds |-> id \in fieldIds \/ st.touched[id]]]
  IN Out(marked, TRUE, <<marked>>)

setError(st, fieldId, error) ==
  LET changed == IF Truthy(error)
                   THEN [st EXCEPT !.errors = Put(st.errors, fieldId, error.msg)]
                   ELSE [st EXCEPT !.errors = Without(st.errors, fieldId)]
  IN Out(changed, TRUE, <<changed>>)

\* reset that starts from an empty values object instead of the snapshot.
resetToEmptyValues(initial) ==
  LET fresh == emptyState(<<>>) IN Out(fresh, TRUE, <<fresh>>)

reset(initial) ==
  LET fresh == emptyState(initial) IN Out(fresh, TRUE, <<fresh>>)

\* resetField that rebuilds the whole state, as reset does.
resetFieldRebuildsState(st, initial, fieldId) ==
  LET fresh == [emptyState(initial) EXCEPT
                  !.values = [st.values EXCEPT ![fieldId] = Lookup(initial, fieldId)]]
  IN Out(fresh, TRUE, <<fresh>>)

\* resetField that leaves the touched flag of the field as it is.
resetFieldKeepsTouched(st, initial, fieldId) ==
  LET restored == [st EXCEPT !.values[fieldId] = Lookup(initial, fieldId),
                             !.errors = Without(st.errors, fieldId)]
  IN Out(restored, TRUE, <<restored>>)

resetField(st, initial, fieldId) ==
  LET restored == [st EXCEPT !.values[fieldId] = Lookup(initial, fieldId),
                             !.errors = Without(st.errors, fieldId),
                             !.touched[fieldId] = FALSE]
  IN Out(restored, TRUE, <<restored>>)

\* A submit callback either returns (a value or a promise, settled later) or
\* throws while it is being called.
Returns == [throws |-> FALSE, failure |-> ""]

Throws(e) == [throws |-> TRUE, failure |-> e]

Callbacks == {Returns, Throws("E1")}

\* What one run of handleSubmit, up to its await, leaves: the state, the
\* promise ("false", "rejected", or "pending" while the callback's promise is
\* awaited), the notifications, the calls made to onSubmit, and the failure
\* the promise is rejected with.
SubmitOut(st, promise, log, calls, failure) ==
  [st |-> st, promise |-> promise, log |-> log, calls |-> calls, failure |-> failure]

\* handleSubmit step by step.  submitStarted: the flag and the counter;
\* submitMarked: the visible fields marked touched; submitFinish: what follows
\* validateAllFields, whose outcome is all.
\* submitStarted that leaves the counter alone.
submitStartedUncounted(st) == [st EXCEPT !.isSubmitting = TRUE]

submitStarted(st) ==
  [st EXCEPT !.isSubmitting = TRUE, !.submitCount = st.submitCount + 1]

submitMarked(started, visibleFields) ==
  [started EXCEPT !.touched =
     [id \in FieldIds |-> id \in Range(visibleFields) \/ started.touched[id]]]

submitFinish(onSubmit, started, visibleFields, all) ==
  LET cleared == [all.st EXCEPT !.isSubmitting = FALSE]
      submittableValues == [fieldId \in Range(visibleFields) |-> all.st.values[fieldId]]
  IN IF all.thrown # ""
       THEN SubmitOut(all.st, "rejected", <<started>> \o all.log, <<>>, all.thrown)
     ELSE IF ~all.ret
       THEN SubmitOut(cleared, "false", <<started>> \o all.log \o <<cleared>>, <<>>, "")
     ELSE IF onSubmit.throws
       THEN SubmitOut(cleared, "rejected", <<started>> \o all.log \o <<cleared>>,
                      <<submittableValues>>, onSubmit.failure)
     ELSE SubmitOut(all.st, "pending", <<started>> \o all.log, <<submittableValues>>, "")

submitValidate(sch, onSubmit, started, visibleFields) ==
  submitFinish(onSubmit, started, visibleFields,
               validateAllFields(sch, submitMarked(started, visibleFields)))

\* handleSubmit that turns a call away while isSubmitting is set.
handleSubmitOneAtATime(sch, st, onSubmit) ==
  IF st.isSubmitting THEN SubmitOut(st, "false", <<>>, <<>>, "")
  ELSE submitValidate(sch, onSubmit, submitStarted(st),
                      getVisibleFields(sch, submitStarted(st)))

handleSubmit(sch, st, onSubmit) ==
  submitValidate(sch, onSubmit, submitStarted(st), getVisibleFields(sch, submitStarted(st)))

\* afterSubmit that swallows the callback's failure.
afterSubmitSwallows(st, failure) ==
  LET cleared == [st EXCEPT !.isSubmitting = FALSE]
  IN SubmitOut(cleared, "true", <<cleared>>, <<>>, "")

\* The rest of handleSubmit, run when the awaited callback settles:
\* failure is "" when it resolved.
afterSubmit(st, failure) ==
  LET cleared == [st EXCEPT !.isSubmitting = FALSE]
  IN SubmitOut(cleared, IF failure = "" THEN "true" ELSE "rejected", <<cleared>>, <<>>,
               failure)

(***************************************************************************)
(* The observers.                                                          *)
(***************************************************************************)
Observers == {"cb1", "cb2"}

\* this.subscribers.add(callback)
subscribe(subs, callback) ==
  IF callback \in Range(subs) THEN subs ELSE Append(subs, callback)

\* The unsubscribe function that leaves the Set as it is.
unsubscribeKeeps(subs, callback) == subs

\* this.subscribers.delete(callback)
unsubscribe(subs, callback) == SelectSeq(subs, LAMBDA c : c # callback)

\* notify that calls the subscribers last added first.
notifyReversed(subs, snapshot) ==
  [i \in 1..Len(subs) |-> [to |-> subs[Len(subs) + 1 - i], state |-> snapshot]]

\* One call of notify: each subscriber is passed a copy of the state.
notify(subs, snapshot) ==
  [i \in 1..Len(subs) |-> [to |-> subs[i], state |-> snapshot]]

\* The calls made to the subscribers by the notify calls of one operation.
RECURSIVE Deliveries(_, _)
Deliveries(subs, log) ==
  IF log = <<>> THEN <<>>
  ELSE notify(subs, Head(log)) \o Deliveries(subs, Tail(log))

(***************************************************************************)
(* The engine as a state machine.                                          *)
(*   schema, initialValues, state : the fields of FormEngine               *)
(*   pending     : the handleSubmit calls awaiting their callback, each    *)
(*                 with the values object it handed to the callback        *)
(*   constructed : the initial snapshot as the constructor computed it     *)
(*   replaced    : whether setSchema has run since construction            *)
(*   probe       : the arguments and the result of one call of a pure      *)
(*                 function, or the initial values the constructor was     *)
(*                 given (SpecEdit)                                        *)
(*   op          : the operation that ran last: its name, the field it was *)
(*                 given (id) and the value it was given (arg),            *)
(*                 what it returned, the snapshots it notified, the calls  *)
(*                 it made to onSubmit, what the callback raised and what  *)
(*                 the operation signalled to its caller                   *)
(*   subscribers : the callbacks in the Set of subscribers, in the order   *)
(*                 the Set iterates them (the order they were added)       *)
(*   handles     : the unsubscribe functions subscribe has returned, in    *)
(*                 order: the callback each one deletes, and whether it is *)
(*                 "live" (never called), "called" (called, and its        *)
(*                 callback has not been subscribed since) or "outdated"   *)
(*                 (called, and its callback was subscribed again later)   *)
(*   delivered   : the calls the last operation made to the subscribers,   *)
(*                 in order: the callback and the state it was passed      *)
(*   held        : for each of the mappings values, errors and touched,    *)
(*                 what the caller keeps of it from a getter or from a     *)
(*                 notification: nothing ("none"), the very object the     *)
(*                 store uses ("store"), or another object ("own")         *)
(***************************************************************************)
VARIABLES schema, initialValues, state, pending, constructed, replaced, op, probe,
          subscribers, handles, delivered, held

vars == <<schema, initialValues, state, pending, constructed, replaced, op, probe,
          subscribers, handles, delivered, held>>

MaxSubmitCount == 2

MaxPending == 1

Op(name, id, ret, log, calls, thrown, error) ==
  [name |-> name, id |-> id, arg |-> Undef, ret |-> ret, log |-> log, calls |-> calls,
   thrown |-> thrown, error |-> error]

NoProbe == [done |-> FALSE]

Mappings == {"values", "errors", "touched"}

NothingHeld == [mapping \in Mappings |-> "none"]

\* The store starts to use a new object for each mapping of fresh: the
\* caller who kept the old object keeps it, and the store no longer uses it.
Detached(kept, fresh) ==
  [mapping \in Mappings |->
     IF mapping \in fresh /\ kept[mapping] = "store" THEN "own" ELSE kept[mapping]]

Sync(name, id, ret, run) == Op(name, id, ret, run.log, <<>>, "", "")

Init ==
  /\ schema = SchemaOne
  /\ \E given \in InitialValueChoices :
       initialValues = Spread(getDefaultValues(schema), given)
  /\ state = emptyState(initialValues)
  /\ constructed = initialValues
  /\ replaced = FALSE
  /\ pending = <<>>
  /\ op = Op("constructor", "", "void", <<>>, <<>>, "", "")
  /\ subscribers = <<>>
  /\ handles = <<>>
  /\ delivered = <<>>
  /\ held = NothingHeld
  /\ probe = NoProbe

SetValue ==
  \E fieldId \in FieldIds : \E value \in InputValues(fieldId) :
    LET run == setValue(schema, state, fieldId, value) IN
    /\ state' = run.st
    /\ op' = [Sync("setValue", fieldId, "void", run) EXCEPT !.arg = value]
    /\ delivered' = Deliveries(subscribers, run.log)
    /\ held' = Detached(held, {})
    /\ UNCHANGED <<schema, initialValues, pending, constructed, replaced, probe,
                   subscribers, handles>>

\* The argument of setValues: every field, or field b only.
ValueMaps == <<[a |-> Num(3), b |-> Str(<<"x", "y">>)], [b |-> Str(<<"x">>)]>>

SetValues ==
  \E i \in 1..Len(ValueMaps) :
    LET run == setValues(state, ValueMaps[i]) IN
    /\ state' = run.st
    /\ op' = Sync("setValues", "", "void", run)
    /\ delivered' = Deliveries(subscribers, run.log)
    /\ held' = Detached(held, {"errors"})
    /\ UNCHANGED <<schema, initialValues, pending, constructed, replaced, probe,
                   subscribers, handles>>

SetTouched ==
  \E fieldId \in FieldIds : \E flag \in BOOLEAN :
    LET run == setTouched(state, fieldId, flag) IN
    /\ state' = run.st
    /\ op' = [Sync("setTouched", fieldId, "void", run) EXCEPT !.arg = Bool(flag)]
    /\ delivered' = Deliveries(subscribers, run.log)
    /\ held' = Detached(held, {})
    /\ UNCHANGED <<schema, initialValues, pending, constructed, replaced, probe,
                   subscribers, handles>>

SetTouchedMultiple ==
  \E fieldIds \in {{"a", "b"}} :
    LET run == setTouchedMultiple(state, fieldIds) IN
    /\ state' = run.st
    /\ op' = Sync("setTouchedMultiple", "", "void", run)
    /\ delivered' = Deliveries(subscribers, run.log)
    /\ held' = Detached(held, {})
    /\ UNCHANGED <<schema, initialValues, pending, constructed, replaced, probe,
                   subscribers, handles>>

SetError ==
  \E fieldId \in FieldIds : \E error \in {Pass} \cup {Fail(m) : m \in ExternalErrors} :
    LET run == setError(state, fieldId, error) IN
    /\ state' = run.st
    /\ op' = Sync("setError", fieldId, "void", run)
    /\ delivered' = Deliveries(subscribers, run.log)
    /\ held' = Detached(held, {})
    /\ UNCHANGED <<schema, initialValues, pending, constructed, replaced, probe,
                   subscribers, handles>>

ValidateSingleField ==
  \E fieldId \in FieldIds :
    LET run == validateSingleField(schema, state, fieldId) IN
    /\ state' = run.st
    /\ op' = Sync("validateSingleField", fieldId, IF run.ret THEN "true" ELSE "false", run)
    /\ delivered' = Deliveries(subscribers, run.log)
    /\ held' = Detached(held, {})
    /\ UNCHANGED <<schema, initialValues, pending, constructed, replaced, probe,
                   subscribers, handles>>

ValidateAllFields ==
  LET run == validateAllFields(schema, state) IN
  /\ state' = run.st
  /\ op' = [Sync("validateAllFields", "",
                 IF run.thrown # "" THEN "thrown" ELSE IF run.ret THEN "true" ELSE "false",
                 run) EXCEPT !.error = run.thrown]
  /\ delivered' = Deliveries(subscribers, run.log)
  /\ held' = Detached(held, {"errors"})
  /\ UNCHANGED <<schema, initialValues, pending, constructed, replaced, probe,
                 subscribers, handles>>

\* An awaited handleSubmit call that passed the store's own values object
\* to its callback.
SubmittedStoreObject(values) == [values |-> values, object |-> "store"]

\* An awaited handleSubmit call: what it passed to its callback is an object
\* of its own ("own"), filled with values, and not the store's values object
\* ("store").
Submitted(values) == [values |-> values, object |-> "own"]

\* What the callback of an awaited call finds in the object it was given
\* when the store is in st.
HandedValues(entry, st) == IF entry.object = "store" THEN st.values ELSE entry.values

\* onSubmit is called only when the form is valid: thrown records what it
\* raised in that call.
HandleSubmit ==
  \E onSubmit \in Callbacks :
    LET run == handleSubmit(schema, state, onSubmit) IN
    /\ state.submitCount < MaxSubmitCount
    /\ run.promise = "pending" => Len(pending) < MaxPending
    /\ state' = run.st
    /\ pending' = IF run.promise = "pending"
                    THEN Append(pending, Submitted(run.calls[1]))
                    ELSE pending
    /\ op' = Op("handleSubmit", "", run.promise, run.log, run.calls,
                IF Len(run.calls) > 0 THEN onSubmit.failure ELSE "", run.failure)
    /\ delivered' = Deliveries(subscribers, run.log)
    /\ held' = Detached(held, {"errors"})
    /\ UNCHANGED <<schema, initialValues, constructed, replaced, probe,
                   subscribers, handles>>

\* The callback of a pending handleSubmit settles: it resolves (failure "")
\* or rejects, and the call runs on from its await.
Settle ==
  \E i \in 1..Len(pending) : \E failure \in {""} \cup CallbackFailures :
    LET run == afterSubmit(state, failure) IN
    /\ state' = run.st
    /\ pending' = SubSeq(pending, 1, i - 1) \o SubSeq(pending, i + 1, Len(pending))
    /\ op' = Op("settle", "", run.promise, run.log, <<>>, failure, run.failure)
    /\ delivered' = Deliveries(subscribers, run.log)
    /\ held' = Detached(held, {})
    /\ UNCHANGED <<schema, initialValues, constructed, replaced, probe,
                   subscribers, handles>>

Reset ==
  LET run == reset(initialValues) IN
  /\ state' = run.st
  /\ op' = Sync("reset", "", "void", run)
  /\ delivered' = Deliveries(subscribers, run.log)
  /\ held' = Detached(held, Mappings)
  /\ UNCHANGED <<schema, initialValues, pending, constructed, replaced, probe,
                 subscribers, handles>>

ResetField ==
  \E fieldId \in FieldIds :
    LET run == resetField(state, initialValues, fieldId) IN
    /\ state' = run.st
    /\ op' = Sync("resetField", fieldId, "void", run)
    /\ delivered' = Deliveries(subscribers, run.log)
    /\ held' = Detached(held, {})
    /\ UNCHANGED <<schema, initialValues, pending, constructed, replaced, probe,
                   subscribers, handles>>

SetSchema ==
  \E newSchema \in NewSchemas :
    LET run == reset(getDefaultValues(newSchema)) IN
    /\ schema' = newSchema
    /\ initialValues' = getDefaultValues(newSchema)
    /\ state' = run.st
    /\ replaced' = TRUE
    /\ op' = Sync("setSchema", "", "void", run)
    /\ delivered' = Deliveries(subscribers, run.log)
    /\ held' = Detached(held, Mappings)
    /\ UNCHANGED <<pending, constructed, probe,
                   subscribers, handles>>

Next ==
  \/ SetValue
  \/ SetValues
  \/ SetTouched
  \/ SetTouchedMultiple
  \/ SetError
  \/ ValidateSingleField
  \/ ValidateAllFields
  \/ HandleSubmit
  \/ Settle
  \/ Reset
  \/ ResetField
  \/ SetSchema

Spec == Init /\ [][Next]_vars

(***************************************************************************)
(* An editing session: the caller writes any value to a field (numbers on  *)
(* both sides of a bound, NaN, the empty string, null, a numeric string),  *)
(* marks fields touched, validates and resets.                             *)
(***************************************************************************)
\* The second argument of the constructor: none, an override of a default,
\* an override with null for the field without default, a value for the
\* field without default only.
GivenValues ==
  <<<<>>,
    [a |-> Num(3)],
    [a |-> Num(3), b |-> Null],
    [b |-> Str(<<"x">>)]>>

InitEdit ==
  /\ schema = SchemaOne
  /\ \E i \in 1..Len(GivenValues) :
       /\ probe = [done |-> FALSE, given |-> GivenValues[i]]
       /\ initialValues = Spread(getDefaultValues(schema), GivenValues[i])
  /\ state = emptyState(initialValues)
  /\ constructed = initialValues
  /\ replaced = FALSE
  /\ pending = <<>>
  /\ op = Op("constructor", "", "void", <<>>, <<>>, "", "")
  /\ subscribers = <<>>
  /\ handles = <<>>
  /\ delivered = <<>>
  /\ held = NothingHeld

EditValues(id) ==
  InputValues(id) \cup {Num(0), NaN, Str(<<>>), Str(<<"1">>), Null}

SetAnyValue ==
  \E fieldId \in FieldIds : \E value \in EditValues(fieldId) :
    LET run == setValue(schema, state, fieldId, value) IN
    /\ state' = run.st
    /\ op' = [Sync("setValue", fieldId, "void", run) EXCEPT !.arg = value]
    /\ delivered' = Deliveries(subscribers, run.log)
    /\ held' = Detached(held, {})
    /\ UNCHANGED <<schema, initialValues, pending, constructed, replaced, probe,
                   subscribers, handles>>

NextEdit ==
  \/ SetAnyValue
  \/ SetTouched
  \/ ValidateSingleField
  \/ ValidateAllFields
  \/ Reset

SpecEdit == InitEdit /\ [][NextEdit]_vars

(***************************************************************************)
(* A watched form: callers subscribe callbacks and call the unsubscribe    *)
(* functions they were returned, in any order and any number of times,     *)
(* while every mutating operation runs on one input each.                  *)
(***************************************************************************)
MaxHandles == 2

MaxWatchedSubmits == 1

Subscribe ==
  \E callback \in Observers :
    /\ Len(handles) < MaxHandles
    /\ subscribers' = subscribe(subscribers, callback)
    /\ handles' =
         Append([i \in 1..Len(handles) |->
                   IF handles[i].of = callback /\ handles[i].status = "called"
                     THEN [handles[i] EXCEPT !.status = "outdated"]
                     ELSE handles[i]],
                [of |-> callback, status |-> "live"])
    /\ op' = Op("subscribe", callback, "handle", <<>>, <<>>, "", "")
    /\ delivered' = <<>>
    /\ UNCHANGED <<schema, initialValues, state, pending, constructed, replaced, probe,
                   held>>

\* A caller calls the i-th unsubscribe function.
Unsubscribe ==
  \E i \in 1..Len(handles) :
    /\ subscribers' = unsubscribe(subscribers, handles[i].of)
    /\ handles' = [handles EXCEPT ![i].status = "called"]
    /\ op' = Op("unsubscribe", handles[i].of, handles[i].status, <<>>, <<>>, "", "")
    /\ delivered' = <<>>
    /\ UNCHANGED <<schema, initialValues, state, pending, constructed, replaced, probe,
                   held>>

WatchedSetValue ==
  \E fieldId \in {"a"} : \E value \in {Num(1)} :
    LET run == setValue(schema, state, fieldId, value) IN
    /\ state' = run.st
    /\ op' = [Sync("setValue", fieldId, "void", run) EXCEPT !.arg = value]
    /\ delivered' = Deliveries(subscribers, run.log)
    /\ held' = Detached(held, {})
    /\ UNCHANGED <<schema, initialValues, pending, constructed, replaced, probe,
                   subscribers, handles>>

WatchedSetTouched ==
  \E fieldId \in {"b"} : \E flag \in {TRUE} :
    LET run == setTouched(state, fieldId, flag) IN
    /\ state' = run.st
    /\ op' = Sync("setTouched", fieldId, "void", run)
    /\ delivered' = Deliveries(subscribers, run.log)
    /\ held' = Detached(held, {})
    /\ UNCHANGED <<schema, initialValues, pending, constructed, replaced, probe,
                   subscribers, handles>>

WatchedSetError ==
  \E fieldId \in {"a"} : \E error \in {Fail(m) : m \in ExternalErrors} :
    LET run == setError(state, fieldId, error) IN
    /\ state' = run.st
    /\ op' = Sync("setError", fieldId, "void", run)
    /\ delivered' = Deliveries(subscribers, run.log)
    /\ held' = Detached(held, {})
    /\ UNCHANGED <<schema, initialValues, pending, constructed, replaced, probe,
                   subscribers, handles>>

WatchedValidateSingleField ==
  \E fieldId \in {"b"} :
    LET run == validateSingleField(schema, state, fieldId) IN
    /\ state' = run.st
    /\ op' = Sync("validateSingleField", fieldId, IF run.ret THEN "true" ELSE "false", run)
    /\ delivered' = Deliveries(subscribers, run.log)
    /\ held' = Detached(held, {})
    /\ UNCHANGED <<schema, initialValues, pending, constructed, replaced, probe,
                   subscribers, handles>>

WatchedResetField ==
  \E fieldId \in {"a"} :
    LET run == resetField(state, initialValues, fieldId) IN
    /\ state' = run.st
    /\ op' = Sync("resetField", fieldId, "void", run)
    /\ delivered' = Deliveries(subscribers, run.log)
    /\ held' = Detached(held, {})
    /\ UNCHANGED <<schema, initialValues, pending, constructed, replaced, probe,
                   subscribers, handles>>

\* handleSubmit on a form that has no submission in flight.
WatchedHandleSubmit ==
  \E onSubmit \in {Returns} :
    LET run == handleSubmit(schema, state, onSubmit) IN
    /\ state.submitCount < MaxWatchedSubmits
    /\ pending = <<>>
    /\ state' = run.st
    /\ pending' = IF run.promise = "pending"
                    THEN Append(pending, Submitted(run.calls[1]))
                    ELSE pending
    /\ op' = Op("handleSubmit", "", run.promise, run.log, run.calls,
                IF Len(run.calls) > 0 THEN onSubmit.failure ELSE "", run.failure)
    /\ delivered' = Deliveries(subscribers, run.log)
    /\ held' = Detached(held, {"errors"})
    /\ UNCHANGED <<schema, initialValues, constructed, replaced, probe,
                   subscribers, handles>>

WatchedSettle ==
  \E i \in 1..Len(pending) : \E failure \in {"", "E1"} :
    LET run == afterSubmit(state, failure) IN
    /\ state' = run.st
    /\ pending' = SubSeq(pending, 1, i - 1) \o SubSeq(pending, i + 1, Len(pending))
    /\ op' = Op("settle", "", run.promise, run.log, <<>>, failure, run.failure)
    /\ delivered' = Deliveries(subscribers, run.log)
    /\ held' = Detached(held, {})
    /\ UNCHANGED <<schema, initialValues, constructed, replaced, probe,
                   subscribers, handles>>

NextObserve ==
  \/ Subscribe
  \/ Unsubscribe
  \/ WatchedSetValue
  \/ SetValues
  \/ WatchedSetTouched
  \/ SetTouchedMultiple
  \/ WatchedSetError
  \/ WatchedValidateSingleField
  \/ ValidateAllFields
  \/ WatchedHandleSubmit
  \/ WatchedSettle
  \/ Reset
  \/ WatchedResetField
  \/ SetSchema

SpecObserve == Init /\ [][NextObserve]_vars

(***************************************************************************)
(* A form that is edited, touched, given errors, reset and given a new     *)
(* schema while at most one submission is in flight.                       *)
(***************************************************************************)
NextFrame ==
  \/ SetValue
  \/ SetValues
  \/ SetTouched
  \/ SetTouchedMultiple
  \/ SetError
  \/ WatchedHandleSubmit
  \/ WatchedSettle
  \/ Reset
  \/ ResetField
  \/ SetSchema

SpecFrame == Init /\ [][NextFrame]_vars

(***************************************************************************)
(* Callers that write to what they were handed: a caller keeps the result  *)
(* of a getter, an observer keeps the state it was passed, and either      *)
(* assigns to a key of a mapping it holds.                                 *)
(***************************************************************************)
\* getState returns { ...this.state }: a new object whose values, errors and
\* touched are the store's own.
GetState ==
  /\ held' = [mapping \in Mappings |-> "store"]
  /\ op' = Op("getState", "", "state", <<>>, <<>>, "", "")
  /\ delivered' = <<>>
  /\ UNCHANGED <<schema, initialValues, state, pending, constructed, replaced, probe,
                 subscribers, handles>>

\* getValues returns { ...this.state.values }.
GetValues ==
  /\ held' = [held EXCEPT !["values"] = "own"]
  /\ op' = Op("getValues", "", "values", <<>>, <<>>, "", "")
  /\ delivered' = <<>>
  /\ UNCHANGED <<schema, initialValues, state, pending, constructed, replaced, probe,
                 subscribers, handles>>

\* getErrors returns { ...this.state.errors }.
GetErrors ==
  /\ held' = [held EXCEPT !["errors"] = "own"]
  /\ op' = Op("getErrors", "", "errors", <<>>, <<>>, "", "")
  /\ delivered' = <<>>
  /\ UNCHANGED <<schema, initialValues, state, pending, constructed, replaced, probe,
                 subscribers, handles>>

\* An observer keeps the state the last notification passed it; notify
\* passes { ...this.state }, and nothing has run since.
Retain ==
  /\ delivered # <<>>
  /\ held' = [mapping \in Mappings |-> "store"]
  /\ UNCHANGED <<schema, initialValues, state, pending, constructed, replaced, op, probe,
                 subscribers, handles, delivered>>

Assigned(st, mapping, fieldId) ==
  CASE mapping = "values" -> [st EXCEPT !.values[fieldId] = Num(9)]
    [] mapping = "errors" -> [st EXCEPT !.errors = Put(st.errors, fieldId, "Forged")]
    [] mapping = "touched" -> [st EXCEPT !.touched[fieldId] = TRUE]

\* held.mapping[fieldId] = ...: an assignment by the caller, outside the
\* engine; it reaches the store when the object is the store's own.
WriteHeld ==
  \E mapping \in Mappings : \E fieldId \in {"a"} :
    /\ held[mapping] # "none"
    /\ state' = IF held[mapping] = "store" THEN Assigned(state, mapping, fieldId)
                                           ELSE state
    /\ op' = Op("write", mapping, held[mapping], <<>>, <<>>, "", "")
    /\ delivered' = <<>>
    /\ UNCHANGED <<schema, initialValues, pending, constructed, replaced, probe,
                   subscribers, handles, held>>

NextHandout ==
  \/ GetState
  \/ GetValues
  \/ GetErrors
  \/ Subscribe
  \/ Retain
  \/ WriteHeld
  \/ WatchedSetValue
  \/ SetValues
  \/ ValidateAllFields
  \/ Reset

SpecHandout == Init /\ [][NextHandout]_vars

(***************************************************************************)
(* validateField on its own: Init draws a field definition, a value and    *)
(* the form values, and the one action applies the function.               *)
(***************************************************************************)
ProbeRules ==
  {NoRules,
   [NoRules EXCEPT !.required = RequiredFlag(TRUE)],
   [NoRules EXCEPT !.required = RequiredMsg("Needed")],
   [NoRules EXCEPT !.minLength = Rule(2, "Too short"), !.maxLength = Rule(3, "Too long")],
   [NoRules EXCEPT !.maxLength = Rule(1, "Too long")],
   [NoRules EXCEPT !.min = Rule(2, "Too small"), !.max = Rule(4, "Too big")],
   [NoRules EXCEPT !.pattern = Pattern("digits", "Digits only")],
   [NoRules EXCEPT !.pattern = Pattern("digits", "Digits only"), !.validate = "message"],
   [NoRules EXCEPT !.maxLength = Rule(1, "Too long"),
                   !.pattern = Pattern("digits", "Digits only"), !.validate = "false"],
   [NoRules EXCEPT !.required = RequiredFlag(TRUE), !.validate = "message"],
   [required |-> RequiredMsg("Needed"),
    minLength |-> Rule(3, "Too short"), maxLength |-> Rule(1, "Too long"),
    min |-> Rule(4, "Too small"), max |-> Rule(2, "Too big"),
    pattern |-> Pattern("digits", "Digits only"), validate |-> "message"]}
   \cup {[NoRules EXCEPT !.validate = fn] :
            fn \in {"true", "false", "message", "undefined", "null", "one", "sameAsA"}}

ProbeConditions ==
  {NoCondition,
   Many(<<>>),
   One(Cond("a", "equals", Num(3))),
   Many(<<Cond("a", "notEquals", Num(3)), Cond("a", "lessThan", Num(5))>>)}

\* A field without rules, and a field with each rule set, under each condition.
ProbeFields ==
  {Field("F", Undef, FALSE, NoRules, vis, NoCondition) : vis \in ProbeConditions}
    \cup {Field("F", Undef, TRUE, rules, vis, NoCondition) :
             rules \in ProbeRules, vis \in ProbeConditions}

ProbeValues ==
  {Undef, Null, Str(<<>>), Str(<<" ">>), Str(<<"x">>), Str(<<"x", "y">>),
   Str(<<"1", "2">>), Str(<<"1", "2", "3", "4">>),
   Num(0), Num(1), Num(3), Num(5), NaN, Bool(FALSE),
   Arr(<<>>), Arr(<<Str(<<"a">>)>>), Arr(<<Num(1), Num(2)>>),
   Arr(<<Str(<<"a">>), Str(<<"b">>), Str(<<"c">>), Str(<<"d">>)>>)}

ProbeFormValues == {[a |-> v] : v \in {Undef, Num(1), Num(3)}}

InitValidate ==
  /\ schema = SchemaOne
  /\ initialValues = getDefaultValues(schema)
  /\ state = emptyState(initialValues)
  /\ constructed = initialValues
  /\ replaced = FALSE
  /\ pending = <<>>
  /\ op = Op("constructor", "", "void", <<>>, <<>>, "", "")
  /\ subscribers = <<>>
  /\ handles = <<>>
  /\ delivered = <<>>
  /\ held = NothingHeld
  /\ \E field \in ProbeFields : \E value \in ProbeValues :
       \E formValues \in ProbeFormValues :
         probe = [done |-> FALSE, field |-> field, value |-> value,
                  formValues |-> formValues, result |-> Pass, calls |-> 0]

ApplyValidateField ==
  /\ ~probe.done
  /\ probe' = [probe EXCEPT
                 !.done = TRUE,
                 !.result = validateField(probe.field, probe.value, probe.formValues),
                 !.calls = customCalls(probe.field, probe.value, probe.formValues)]
  /\ UNCHANGED <<schema, initialValues, state, pending, constructed, replaced, op,
                 subscribers, handles, delivered, held>>

NextValidate == ApplyValidateField

SpecValidate == InitValidate /\ [][NextValidate]_vars

(***************************************************************************)
(* evaluateCondition on its own: Init draws a condition (absent, single or *)
(* an array) and the form values, and the one action evaluates it, up to   *)
(* MaxEvaluations times on the same arguments.                             *)
(***************************************************************************)
MaxEvaluations == 2

ProbeOperators ==
  {"equals", "notEquals", "in", "notIn", "greaterThan", "lessThan", "startsWith"}

ProbeOperands ==
  {Num(2), Str(<<"2">>), Str(<<"x">>), NaN, Null, Undef,
   Arr(<<Num(1), Num(2)>>), Arr(<<Str(<<"x">>), NaN>>), Arr(<<Undef>>)}

\* Conditions on field a, and on field c, which the form values never hold.
ProbeSingles ==
  {Cond(f, o, v) : f \in {"a", "c"}, o \in ProbeOperators, v \in ProbeOperands}

ProbeElements ==
  {Cond("a", "equals", Num(2)), Cond("a", "notEquals", Num(2)),
   Cond("a", "greaterThan", Num(2)), Cond("a", "lessThan", Num(2)),
   Cond("b", "in", Arr(<<Str(<<"x">>), NaN>>)), Cond("c", "equals", Undef),
   Cond("a", "startsWith", Str(<<"2">>))}

ProbeLists ==
  {NoCondition, Many(<<>>)}
    \cup {One(c) : c \in ProbeSingles}
    \cup {Many(<<c>>) : c \in ProbeSingles}
    \cup {Many(<<c, d>>) : c \in ProbeElements, d \in ProbeElements}
    \cup {Many(<<c, d, c>>) : c \in ProbeElements, d \in ProbeElements}

ProbeFieldValues ==
  {Undef, Null, Num(1), Num(2), Num(3), NaN, Str(<<"2">>), Str(<<"3">>), Str(<<"x">>),
   Arr(<<Num(1), Num(2)>>)}

ProbeForms == {[a |-> v, b |-> w] : v \in ProbeFieldValues, w \in {Str(<<"x">>), NaN}}

InitCondition ==
  /\ schema = SchemaOne
  /\ initialValues = getDefaultValues(schema)
  /\ state = emptyState(initialValues)
  /\ constructed = initialValues
  /\ replaced = FALSE
  /\ pending = <<>>
  /\ op = Op("constructor", "", "void", <<>>, <<>>, "", "")
  /\ subscribers = <<>>
  /\ handles = <<>>
  /\ delivered = <<>>
  /\ held = NothingHeld
  /\ \E condition \in ProbeLists : \E formValues \in ProbeForms :
       probe = [condition |-> condition, formValues |-> formValues, results |-> <<>>]

ApplyEvaluateCondition ==
  /\ Len(probe.results) < MaxEvaluations
  /\ probe' = [probe EXCEPT
                 !.results = Append(@, evaluateCondition(probe.condition, probe.formValues))]
  /\ UNCHANGED <<schema, initialValues, state, pending, constructed, replaced, op,
                 subscribers, handles, delivered, held>>

NextCondition == ApplyEvaluateCondition

SpecCondition == InitCondition /\ [][NextCondition]_vars

(***************************************************************************)
(* Overlapping submissions: handleSubmit may be called while the callbacks *)
(* of earlier calls are still awaited.                                     *)
(***************************************************************************)
MaxOverlap == 2

MaxOverlapSubmits == 2

OverlappingHandleSubmit ==
  \E onSubmit \in Callbacks :
    LET run == handleSubmit(schema, state, onSubmit) IN
    /\ state.submitCount < MaxOverlapSubmits
    /\ run.promise = "pending" => Len(pending) < MaxOverlap
    /\ state' = run.st
    /\ pending' = IF run.promise = "pending"
                    THEN Append(pending, Submitted(run.calls[1]))
                    ELSE pending
    /\ op' = Op("handleSubmit", "", run.promise, run.log, run.calls,
                IF Len(run.calls) > 0 THEN onSubmit.failure ELSE "", run.failure)
    /\ delivered' = Deliveries(subscribers, run.log)
    /\ held' = Detached(held, {"errors"})
    /\ UNCHANGED <<schema, initialValues, constructed, replaced, probe,
                   subscribers, handles>>

NextOverlap ==
  \/ SetValue
  \/ SetValues
  \/ SetTouched
  \/ OverlappingHandleSubmit
  \/ Settle
  \/ Reset

SpecOverlap == Init /\ [][NextOverlap]_vars

(***************************************************************************)
(* A custom predicate that raises. In SchemaRaise the predicate of b raises *)
(* for the value "x"; no field has a condition, so that setValue never     *)
(* validates a dependent field.                                            *)
(***************************************************************************)
SchemaRaise ==
  [order |-> <<"a", "b">>,
   fields |->
     [a |-> Field("A", Num(2), TRUE,
                  [NoRules EXCEPT !.required = RequiredMsg("A required"),
                                  !.min = Rule(2, "Min 2")],
                  NoCondition, NoCondition),
      b |-> Field("B", Undef, TRUE,
                  [NoRules EXCEPT !.validate = "raisesOnX"],
                  NoCondition, NoCondition)]]

InitRaise ==
  /\ schema = SchemaRaise
  /\ initialValues = getDefaultValues(schema)
  /\ state = emptyState(initialValues)
  /\ constructed = initialValues
  /\ replaced = FALSE
  /\ pending = <<>>
  /\ op = Op("constructor", "", "void", <<>>, <<>>, "", "")
  /\ subscribers = <<>>
  /\ handles = <<>>
  /\ delivered = <<>>
  /\ held = NothingHeld
  /\ probe = NoProbe

NextRaise ==
  \/ SetValue
  \/ SetTouched
  \/ ValidateAllFields
  \/ OverlappingHandleSubmit
  \/ Settle
  \/ Reset

SpecRaise == InitRaise /\ [][NextRaise]_vars

(***************************************************************************)
(* The operations that write values, touched flags and validation errors,  *)
(* without setError, reset, resetField and setSchema.                      *)
(***************************************************************************)
NextHidden ==
  \/ SetValue
  \/ SetTouched
  \/ ValidateSingleField
  \/ ValidateAllFields
  \/ WatchedHandleSubmit
  \/ WatchedSettle

SpecHidden == Init /\ [][NextHidden]_vars

\* getMeta().isValid
isValid(st) == DOMAIN st.errors = {}

(***************************************************************************)
(* getFieldIds on its own: Init draws a layout (an array of nodes, nested  *)
(* up to three levels) and the one action applies the function. A node     *)
(* without fieldId holds "" and a node without children holds <<>>: both   *)
(* tests of the code (node.fieldId, node.children) treat them alike.       *)
(***************************************************************************)
LayoutNode(kind, fieldId, children) ==
  [kind |-> kind, fieldId |-> fieldId, children |-> children]

\* traverseLayout that yields a node after its children.
RECURSIVE traverseLayoutChildrenFirst(_)
traverseLayoutChildrenFirst(layout) ==
  IF layout = <<>> THEN <<>>
  ELSE traverseLayoutChildrenFirst(Head(layout).children)
         \o <<Head(layout)>>
         \o traverseLayoutChildrenFirst(Tail(layout))

\* The nodes the generator yields, in order.
RECURSIVE traverseLayout(_)
traverseLayout(layout) ==
  IF layout = <<>> THEN <<>>
  ELSE <<Head(layout)>>
         \o traverseLayout(Head(layout).children)
         \o traverseLayout(Tail(layout))

RECURSIVE collectFieldIds(_)
collectFieldIds(nodes) ==
  IF nodes = <<>> THEN <<>>
  ELSE IF Head(nodes).kind = "field" /\ Head(nodes).fieldId # ""
    THEN <<Head(nodes).fieldId>> \o collectFieldIds(Tail(nodes))
  ELSE collectFieldIds(Tail(nodes))

getFieldIds(layout) == collectFieldIds(traverseLayout(layout))

ProbeLeaves ==
  {LayoutNode("field", "a", <<>>), LayoutNode("field", "b", <<>>),
   LayoutNode("field", "", <<>>), LayoutNode("stack", "", <<>>),
   LayoutNode("grid", "a", <<>>)}

\* A section, and a field node, with one or two children.
ProbeBranches ==
  {LayoutNode(head[1], head[2], <<c>>) :
     head \in {<<"section", "">>, <<"field", "a">>}, c \in ProbeLeaves}
    \cup {LayoutNode(head[1], head[2], <<c, d>>) :
             head \in {<<"section", "">>, <<"field", "a">>},
             c \in ProbeLeaves, d \in ProbeLeaves}

ProbeTrees ==
  {LayoutNode("stack", "", <<branch, LayoutNode("field", "b", <<>>)>>) :
     branch \in ProbeBranches}
    \cup {LayoutNode("grid", "", <<LayoutNode("field", "b", <<>>), branch>>) :
             branch \in ProbeBranches}

ProbeLayouts ==
  {<<>>}
    \cup {<<node>> : node \in ProbeLeaves \cup ProbeBranches \cup ProbeTrees}
    \cup {<<node, leaf>> : node \in ProbeLeaves \cup ProbeBranches, leaf \in ProbeLeaves}
    \cup {<<LayoutNode("field", "a", <<>>), node, LayoutNode("field", "a", <<>>)>> :
             node \in ProbeTrees}

InitLayout ==
  /\ schema = SchemaOne
  /\ initialValues = getDefaultValues(schema)
  /\ state = emptyState(initialValues)
  /\ constructed = initialValues
  /\ replaced = FALSE
  /\ pending = <<>>
  /\ op = Op("constructor", "", "void", <<>>, <<>>, "", "")
  /\ subscribers = <<>>
  /\ handles = <<>>
  /\ delivered = <<>>
  /\ held = NothingHeld
  /\ \E layout \in ProbeLayouts :
       probe = [done |-> FALSE, layout |-> layout, result |-> <<>>]

ApplyGetFieldIds ==
  /\ ~probe.done
  /\ probe' = [probe EXCEPT !.done = TRUE, !.result = getFieldIds(probe.layout)]
  /\ UNCHANGED <<schema, initialValues, state, pending, constructed, replaced, op,
                 subscribers, handles, delivered, held>>

NextLayout == ApplyGetFieldIds

SpecLayout == InitLayout /\ [][NextLayout]_vars

(***************************************************************************)
(* The React component FormEngine (engine/FormEngine.tsx). Its schema has  *)
(* the shape of the README's examples: rules.required is a message and a   *)
(* condition names its operator op. The component's state (values, errors, *)
(* touched) is held in probe, with                                         *)
(*   effect  the useEffect on [values, schema, onChange] has yet to run    *)
(*           for the latest render,                                        *)
(*   last    the step taken last, and                                      *)
(*   calls   the calls that step made to the onChange and onSubmit props.  *)
(* The values object is a mapping whose DOMAIN is its set of keys.         *)
(***************************************************************************)
isEmpty(v) ==
  \/ v.t = "null"
  \/ v.t = "undefined"
  \/ (v.t = "string" /\ Trim(v.s) = <<>>)
  \/ (v.t = "array" /\ Len(v.e) = 0)

\* The length, pattern and range rules of the component's validateField,
\* for a value that is not empty.
formBuiltIn(r, value) ==
  IF value.t = "string" /\ r.minLength.on /\ Len(value.s) < r.minLength.value
    THEN Fail(r.minLength.message)
  ELSE IF value.t = "string" /\ r.maxLength.on /\ Len(value.s) > r.maxLength.value
    THEN Fail(r.maxLength.message)
  ELSE IF value.t = "string" /\ r.pattern.on /\ ~Matches(r.pattern.re, value.s)
    THEN Fail(r.pattern.message)
  ELSE IF value.t = "number" /\ r.min.on
            /\ Less(NumberOf(value), [nan |-> FALSE, n |-> r.min.value])
    THEN Fail(r.min.message)
  ELSE IF value.t = "number" /\ r.max.on
            /\ Less([nan |-> FALSE, n |-> r.max.value], NumberOf(value))
    THEN Fail(r.max.message)
  ELSE IF value.t = "array" /\ r.minLength.on /\ Len(value.e) < r.minLength.value
    THEN Fail(r.minLength.message)
  ELSE Pass

\* The custom predicate of the component's validateField: a string is the
\* message, false gives 'Invalid'.
formCustom(res) ==
  IF res.t = "string" THEN Fail(res.msg)
  ELSE IF res.t = "boolean" /\ ~res.b THEN Fail("Invalid")
  ELSE Pass

\* validateField of the component.
validateFormField(field, value, all) ==
  IF ~field.hasRules THEN Pass
  ELSE IF RequiredOn(field.rules.required) /\ isEmpty(value)
    THEN Fail(field.rules.required.msg)
  ELSE IF isEmpty(value) THEN Pass
  ELSE IF ~formBuiltIn(field.rules, value).isNull THEN formBuiltIn(field.rules, value)
  ELSE IF field.rules.validate # "absent"
    THEN formCustom(CustomResult(field.rules.validate, value, all))
  ELSE Pass

isVisibleOne(c, fv) ==
  CASE c.op = "equals" -> StrictEquals(fv, c.value)
    [] c.op = "notEquals" -> ~StrictEquals(fv, c.value)
    [] c.op = "in" -> IF c.value.t = "array" THEN Includes(c.value, fv) ELSE FALSE
    [] c.op = "notIn" -> IF c.value.t = "array" THEN ~Includes(c.value, fv) ELSE TRUE
    [] OTHER -> TRUE

isVisible(field, values) ==
  \/ field.visibleWhen.form = "absent"
  \/ \A i \in 1..Len(field.visibleWhen.list) :
       isVisibleOne(field.visibleWhen.list[i], Lookup(values, field.visibleWhen.list[i].field))

\* validateForm that validates the hidden fields too.
validateFormAllFields(sch, values) ==
  [id \in {x \in Range(sch.order) :
             Truthy(validateFormField(sch.fields[x], Lookup(values, x), values))}
     |-> validateFormField(sch.fields[id], Lookup(values, id), values).msg]

validateForm(sch, values) ==
  [id \in {x \in Range(sch.order) :
             /\ isVisible(sch.fields[x], values)
             /\ Truthy(validateFormField(sch.fields[x], Lookup(values, x), values))}
     |-> validateFormField(sch.fields[id], Lookup(values, id), values).msg]

\* The defaults the component computes from the schema.
defaults(sch) ==
  [id \in {x \in Range(sch.order) : sch.fields[x].defaultValue # Undef}
     |-> sch.fields[id].defaultValue]

\* b (at least two characters) is shown while a is "x".
FormSchemaOne ==
  [order |-> <<"a", "b">>,
   fields |->
     [a |-> Field("A", Str(<<"x">>), TRUE,
                  [NoRules EXCEPT !.required = RequiredMsg("A required")],
                  NoCondition, NoCondition),
      b |-> Field("B", Undef, TRUE,
                  [NoRules EXCEPT !.required = RequiredMsg("B required"),
                                  !.minLength = Rule(2, "Too short")],
                  One(Cond("a", "equals", Str(<<"x">>))), NoCondition)]]

\* b, with a default that breaks its rule, is shown unless a is "x" or "z";
\* a must differ from "z" by a custom predicate.
FormSchemaTwo ==
  [order |-> <<"b", "a">>,
   fields |->
     [b |-> Field("B", Str(<<"y">>), TRUE,
                  [NoRules EXCEPT !.minLength = Rule(2, "Too short")],
                  Many(<<Cond("a", "notIn", Arr(<<Str(<<"x">>), Str(<<"z">>)>>)),
                         Cond("a", "notEquals", Null)>>),
                  NoCondition),
      a |-> Field("A", Str(<<"x">>), TRUE,
                  [NoRules EXCEPT !.validate = "notZ"], NoCondition, NoCondition)]]

FormSchemas == {FormSchemaOne, FormSchemaTwo}

\* The initialValues prop.
FormInitialValues == <<<<>>, [b |-> Str(<<"x">>)], [a |-> Str(<<"y">>)]>>

\* What the user enters in a field.
FormInputs(id) ==
  CASE id = "a" -> {Str(<<"x">>), Str(<<"y">>), Str(<<"z">>)}
    [] id = "b" -> {Str(<<>>), Str(<<"x">>), Str(<<"x", "y">>)}

Call(fn, values, errors) == [fn |-> fn, values |-> values, errors |-> errors]

Component(values, errors, touched, effect, last, calls) ==
  [values |-> values, errors |-> errors, touched |-> touched, effect |-> effect,
   last |-> last, calls |-> calls]

\* The body of the useEffect.
validateOnChange(sch, c) ==
  Component(c.values, validateForm(sch, c.values), c.touched, FALSE, "effect",
            <<Call("onChange", c.values, validateForm(sch, c.values))>>)

handleChange(c, id, v) ==
  Component(Put(c.values, id, v), c.errors, c.touched, TRUE, "handleChange", <<>>)

handleBlur(c, id) ==
  Component(c.values, c.errors, c.touched \cup {id}, c.effect, "handleBlur", <<>>)

\* handleSubmit of the component.
handleFormSubmit(sch, c) ==
  Component(c.values, validateForm(sch, c.values), Range(sch.order), c.effect,
            "handleSubmit",
            IF DOMAIN validateForm(sch, c.values) = {}
              THEN <<Call("onSubmit", c.values, <<>>)>> ELSE <<>>)

InitForm ==
  /\ schema \in FormSchemas
  /\ \E i \in 1..Len(FormInitialValues) : initialValues = FormInitialValues[i]
  /\ state = emptyState(Spread(defaults(schema), initialValues))
  /\ constructed = Spread(defaults(schema), initialValues)
  /\ replaced = FALSE
  /\ pending = <<>>
  /\ op = Op("constructor", "", "void", <<>>, <<>>, "", "")
  /\ subscribers = <<>>
  /\ handles = <<>>
  /\ delivered = <<>>
  /\ held = NothingHeld
  /\ probe = Component(Spread(defaults(schema), initialValues), <<>>, {}, TRUE, "mount", <<>>)

FormIdle ==
  UNCHANGED <<schema, initialValues, state, pending, constructed, replaced, op,
              subscribers, handles, delivered, held>>

\* React runs the effect after the render that followed a change of values
\* (and after the first render).
ValidateOnChange ==
  /\ probe.effect
  /\ probe' = validateOnChange(schema, probe)
  /\ FormIdle

\* Only the fields that are visible are rendered and can be edited.
HandleChange ==
  \E id \in FieldIds :
    /\ isVisible(schema.fields[id], probe.values)
    /\ \E v \in FormInputs(id) : probe' = handleChange(probe, id, v)
    /\ FormIdle

HandleBlur ==
  \E id \in FieldIds :
    /\ isVisible(schema.fields[id], probe.values)
    /\ probe' = handleBlur(probe, id)
    /\ FormIdle

HandleFormSubmit ==
  /\ probe' = handleFormSubmit(schema, probe)
  /\ FormIdle

NextForm == ValidateOnChange \/ HandleChange \/ HandleBlur \/ HandleFormSubmit

SpecForm == InitForm /\ [][NextForm]_vars

(***************************************************************************)
(* Properties.                                                             *)
(***************************************************************************)
\* The fields of the schema that are visible in st, and whether a field of
\* the schema fails validation there, stated directly from the conditions.
Shown(sch, st) ==
  {id \in Range(sch.order) : evaluateCondition(sch.fields[id].visibleWhen, st.values)}

Verdict(sch, st, id) == validateField(sch.fields[id], st.values[id], st.values)

Failing(sch, st) == {id \in Shown(sch, st) : Truthy(Verdict(sch, st, id))}

\* C1: a handleSubmit call made while every visible field passes validation
\* calls onSubmit exactly once, with an object whose keys are exactly the
\* visible fields, each with its current value (no hidden field's value).
C1_ValidSubmitPassesVisibleValues ==
  [][(op'.name = "handleSubmit" /\ Failing(schema, state) = {}) =>
       /\ Len(op'.calls) = 1
       /\ DOMAIN op'.calls[1] = Shown(schema, state)
       /\ \A id \in Shown(schema, state) : op'.calls[1][id] = state.values[id]
       /\ state'.values = state.values]_vars

\* A valid submit has run while a hidden field held a value: the value was
\* left out of what the callback received.
C1_Witness ==
  /\ op.name = "handleSubmit"
  /\ Len(op.calls) = 1
  /\ \E id \in Range(schema.order) \ Shown(schema, state) :
       state.values[id] # Undef /\ id \notin DOMAIN op.calls[1]

\* C2: a handleSubmit call made while some visible field fails validation
\* never calls onSubmit, resolves to false, leaves isSubmitting false, marks
\* every visible field touched and leaves an error for each failing one.
C2_InvalidSubmitIsRefused ==
  [][(op'.name = "handleSubmit" /\ Failing(schema, state) # {}) =>
       /\ op'.calls = <<>>
       /\ op'.ret = "false"
       /\ ~state'.isSubmitting
       /\ \A id \in Shown(schema, state) : state'.touched[id]
       /\ \A id \in Failing(schema, state) :
            id \in DOMAIN state'.errors
            /\ state'.errors[id] = Verdict(schema, state, id).msg]_vars

\* An invalid submit has run on a form with a visible failing field that
\* was untouched and had no error before the call.
C2_Witness ==
  /\ op.name = "handleSubmit"
  /\ op.ret = "false"
  /\ \E id \in Failing(schema, state) :
       ~op.log[1].touched[id] /\ id \notin DOMAIN op.log[1].errors

\* C3: when the submit callback raises (while it is called) or rejects (when
\* it settles), the store has isSubmitting false and its last notification
\* shows isSubmitting false by the time handleSubmit's promise is rejected,
\* and it is rejected with the failure the callback raised.
C3_CallbackFailureClearsThenPropagates ==
  (op.name \in {"handleSubmit", "settle"} /\ op.thrown # "") =>
    /\ op.ret = "rejected"
    /\ op.error = op.thrown
    /\ ~state.isSubmitting
    /\ op.log # <<>>
    /\ ~op.log[Len(op.log)].isSubmitting
    /\ op.log[Len(op.log)] = state

\* A pending callback has rejected.
C3_Witness == op.name = "settle" /\ op.thrown # "" /\ op.ret = "rejected"

\* C4 as claimed: whenever a submit callback is pending, isSubmitting is
\* true, whatever has been called in the meantime.
C4_PendingImpliesSubmitting == pending # <<>> => state.isSubmitting

\* C4 amended: isSubmitting is true when handleSubmit has just handed the
\* values to its callback, and while a callback is pending no operation other
\* than reset, setSchema, a further handleSubmit or a settlement clears it.
C4_OnlyResetOrSubmitClears ==
  [][/\ (op'.name = "handleSubmit" /\ op'.ret = "pending") => state'.isSubmitting
     /\ (/\ pending # <<>>
         /\ state.isSubmitting
         /\ op'.name \notin {"reset", "setSchema", "handleSubmit", "settle"})
        => state'.isSubmitting]_vars

\* A value has been written while a submit was pending, and isSubmitting is
\* still true.
C4_Witness == pending # <<>> /\ op.name = "setValue" /\ state.isSubmitting

\* C5 as claimed: reset restores the snapshot captured at construction.
C5_ResetRestoresConstructionSnapshot ==
  op.name = "reset" => state = emptyState(constructed)

\* C5 amended: reset restores the snapshot captured at construction or, once
\* setSchema has been called, the declared defaults of the schema set last;
\* errors and touched are empty, the flags false and submitCount zero.
C5_ResetRestoresCurrentSnapshot ==
  op.name = "reset" =>
    /\ state.values =
         Total(IF replaced THEN getDefaultValues(schema) ELSE constructed)
    /\ state.errors = <<>>
    /\ \A id \in FieldIds : ~state.touched[id]
    /\ ~state.isSubmitting
    /\ ~state.isValidating
    /\ state.submitCount = 0

\* reset has run after submissions, and brought back a value of the
\* construction snapshot that is not a schema default.
C5_Witness ==
  /\ op.name = "reset"
  /\ ~replaced
  /\ state.values # Total(getDefaultValues(schema))
  /\ state.values = Total(constructed)

\* C6: after setValue(A, v), every touched field B whose visibleWhen or
\* enabledWhen names A carries the validator's verdict at the new values:
\* its message when it fails, no error when it passes or is hidden.
NamesField(condition, id) ==
  \E i \in 1..Len(condition.list) : condition.list[i].field = id

C6_DependentsRevalidated ==
  [][op'.name = "setValue" =>
       \A B \in Range(schema.order) :
         (/\ state.touched[B]
          /\ \/ NamesField(schema.fields[B].visibleWhen, op'.id)
             \/ NamesField(schema.fields[B].enabledWhen, op'.id))
         => IF Truthy(Verdict(schema, state', B))
              THEN B \in DOMAIN state'.errors
                   /\ state'.errors[B] = Verdict(schema, state', B).msg
              ELSE B \notin DOMAIN state'.errors]_vars

\* Writing the driving field has hidden a touched dependent: it was validated
\* again in the same call and carries no error.
C6_Witness ==
  /\ op.name = "setValue"
  /\ \E B \in Range(schema.order) \ {op.id} :
       /\ state.touched[B]
       /\ NamesField(schema.fields[B].visibleWhen, op.id)
       /\ B \notin Shown(schema, state)
       /\ Len(op.log) = 2
       /\ B \notin DOMAIN state.errors

\* C7 as claimed: after setValue(id, v) the errors mapping has no entry for
\* id.
C7_SetValueClearsOwnError == op.name = "setValue" => op.id \notin DOMAIN state.errors

\* C8: after validateAllFields the errors mapping is exactly the visible
\* failing fields with their messages, isValidating is false, and the call
\* returned true iff the mapping is empty.
C8_ValidateAllRebuildsErrors ==
  op.name = "validateAllFields" =>
    /\ DOMAIN state.errors = Failing(schema, state)
    /\ \A id \in Failing(schema, state) : state.errors[id] = Verdict(schema, state, id).msg
    /\ ~state.isValidating
    /\ (op.ret = "true") = (DOMAIN state.errors = {})
    /\ op.ret \in {"true", "false"}

\* validateAllFields has dropped an error that setError had put on a field
\* which is hidden.
C8_Witness ==
  /\ op.name = "validateAllFields"
  /\ \E id \in Range(schema.order) \ Shown(schema, state) :
       /\ id \in DOMAIN op.log[1].errors
       /\ op.log[1].errors[id] \in ExternalErrors
       /\ id \notin DOMAIN state.errors

\* C9: validateSingleField(id), for a field of the schema, sets errors[id]
\* to the validator's message and returns false when the value fails, deletes
\* errors[id] and returns true when it passes, and changes nothing else.
C9_ValidateSingleFieldEffect ==
  [][(op'.name = "validateSingleField" /\ op'.id \in Range(schema.order)) =>
       /\ IF Truthy(Verdict(schema, state, op'.id))
            THEN /\ op'.id \in DOMAIN state'.errors
                 /\ state'.errors[op'.id] = Verdict(schema, state, op'.id).msg
                 /\ op'.ret = "false"
            ELSE /\ op'.id \notin DOMAIN state'.errors
                 /\ op'.ret = "true"
       /\ DOMAIN state'.errors \ {op'.id} = DOMAIN state.errors \ {op'.id}
       /\ \A id \in DOMAIN state.errors \ {op'.id} : state'.errors[id] = state.errors[id]
       /\ state'.values = state.values
       /\ state'.touched = state.touched]_vars

\* validateSingleField has passed a field of the schema while another field
\* kept its error.
C9_Witness ==
  /\ op.name = "validateSingleField"
  /\ op.ret = "true"
  /\ op.id \in Range(schema.order)
  /\ DOMAIN state.errors # {}

\* C10: validateField returns null for a field whose visibleWhen evaluates
\* to false against the form values, whatever its rules and its value.
C10_HiddenFieldIsValid ==
  (probe.done /\ ~evaluateCondition(probe.field.visibleWhen, probe.formValues))
    => probe.result = Pass

\* validateField has been applied to a hidden required field with an empty
\* value.
C10_Witness ==
  /\ probe.done
  /\ ~evaluateCondition(probe.field.visibleWhen, probe.formValues)
  /\ probe.field.hasRules
  /\ RequiredOn(probe.field.rules.required)
  /\ IsEmptyValue(probe.value)

\* The probed field is visible for the probed form values and carries rules.
ProbeVisible ==
  /\ probe.field.hasRules
  /\ evaluateCondition(probe.field.visibleWhen, probe.formValues)

\* Empty in the words of the specification: null, undefined, a string of
\* nothing but whitespace, or a sequence without elements.
IsBlank(value) ==
  \/ value.t \in {"null", "undefined"}
  \/ (value.t = "string" /\ \A i \in 1..Len(value.s) : value.s[i] = " ")
  \/ (value.t = "array" /\ value.e = <<>>)

\* C11: for a visible field whose required rule is true or a message,
\* validateField answers every empty value (null, undefined, "", whitespace
\* only, empty sequence) with the configured message, or "<label> is
\* required" when required is true; a non-empty value passes when required is
\* the only rule.
C11_RequiredRejectsEmpty ==
  (probe.done /\ ProbeVisible /\ RequiredOn(probe.field.rules.required)) =>
    /\ IsBlank(probe.value) =>
         probe.result =
           Fail(IF probe.field.rules.required.kind = "string"
                  THEN probe.field.rules.required.msg
                  ELSE probe.field.label \o " is required")
    /\ (/\ ~IsBlank(probe.value)
        /\ probe.field.rules = [NoRules EXCEPT !.required = probe.field.rules.required])
       => probe.result = Pass

\* validateField has answered a whitespace-only value of a visible field
\* whose required rule is true with "<label> is required".
C11_Witness ==
  /\ probe.done
  /\ ProbeVisible
  /\ probe.field.rules.required = RequiredFlag(TRUE)
  /\ probe.value = Str(<<" ">>)
  /\ probe.result = Fail("F is required")

\* C12 as claimed: for a field that is not required, validateField returns
\* null for every empty value (null, undefined, a string that is empty after
\* trimming, an empty sequence) and applies no length, range, pattern or
\* custom check to it.
C12_EmptyOptionalIsValid ==
  (probe.done /\ ~RequiredOn(probe.field.rules.required) /\ IsBlank(probe.value)) =>
    /\ probe.result = Pass
    /\ probe.calls = 0

\* The rules in the order of the specification, and for each rule whether the
\* probed value breaks it and the message it then gives.  A rule other than
\* required applies to a value that is not null, undefined or ""; the length
\* rules apply to strings, the range rules to numbers.
RuleOrder == <<"required", "minLength", "maxLength", "min", "max", "pattern", "validate">>

Considered(value) == value.t \notin {"null", "undefined"} /\ value # Str(<<>>)

Breaks(rule) ==
  LET rules == probe.field.rules
      value == probe.value
      custom == CustomResult(rules.validate, value, probe.formValues)
  IN CASE rule = "required" -> RequiredOn(rules.required) /\ IsBlank(value)
       [] rule = "minLength" ->
            /\ rules.minLength.on /\ Considered(value)
            /\ value.t = "string" /\ Len(value.s) < rules.minLength.value
       [] rule = "maxLength" ->
            /\ rules.maxLength.on /\ Considered(value)
            /\ value.t = "string" /\ Len(value.s) > rules.maxLength.value
       [] rule = "min" ->
            /\ rules.min.on /\ value.t = "number" /\ ~IsNaN(value)
            /\ value.n < rules.min.value
       [] rule = "max" ->
            /\ rules.max.on /\ value.t = "number" /\ ~IsNaN(value)
            /\ value.n > rules.max.value
       [] rule = "pattern" ->
            /\ rules.pattern.on /\ Considered(value)
            /\ ~Matches(rules.pattern.re, StringOf(value))
       [] rule = "validate" ->
            /\ rules.validate # "absent" /\ Considered(value)
            /\ custom # [t |-> "boolean", b |-> TRUE, msg |-> ""]

MessageOf(rule) ==
  LET rules == probe.field.rules
      custom == CustomResult(rules.validate, probe.value, probe.formValues)
  IN CASE rule = "required" ->
            IF rules.required.kind = "string" THEN rules.required.msg
            ELSE probe.field.label \o " is required"
       [] rule = "minLength" -> rules.minLength.message
       [] rule = "maxLength" -> rules.maxLength.message
       [] rule = "min" -> rules.min.message
       [] rule = "max" -> rules.max.message
       [] rule = "pattern" -> rules.pattern.message
       [] rule = "validate" ->
            IF custom.t = "string" THEN custom.msg ELSE "Validation failed"

Broken == {i \in 1..Len(RuleOrder) : Breaks(RuleOrder[i])}

\* C13: validateField answers a visible field with the message of the first
\* broken rule in the order required, minLength, maxLength, min, max, pattern,
\* custom predicate, and with null iff no rule is broken; the custom predicate
\* is invoked at most once, and only when no built-in rule is broken.
C13_FirstBrokenRuleWins ==
  (probe.done /\ ProbeVisible) =>
    /\ IF Broken = {}
         THEN probe.result = Pass
         ELSE probe.result =
                Fail(MessageOf(RuleOrder[CHOOSE i \in Broken : \A j \in Broken : i <= j]))
    /\ probe.calls \in {0, 1}
    /\ probe.calls = 1 => Broken \subseteq {Len(RuleOrder)}

\* validateField has answered a value that breaks minLength, maxLength, the
\* pattern and the custom predicate at once with the minLength message,
\* without invoking the predicate.
C13_Witness ==
  /\ probe.done
  /\ ProbeVisible
  /\ {2, 3, 6, 7} \subseteq Broken
  /\ probe.result = Fail(probe.field.rules.minLength.message)
  /\ probe.calls = 0

\* C14 as claimed: when the custom predicate is invoked, a returned string
\* is the error, a return of exactly false gives "Validation failed", and
\* every other return value (true, undefined, null, a number) passes.
C14_OnlyStringOrFalseFails ==
  (probe.done /\ probe.calls = 1) =>
    LET custom == CustomResult(probe.field.rules.validate, probe.value, probe.formValues)
    IN probe.result =
         IF custom.t = "string" THEN Fail(custom.msg)
         ELSE IF custom.t = "boolean" /\ ~custom.b THEN Fail("Validation failed")
         ELSE Pass

\* C15 as claimed: for a visible field, a non-empty sequence shorter than
\* minLength.value gets the minLength message and one longer than
\* maxLength.value the maxLength message, as a string of that length does.
C15_LengthRulesCoverSequences ==
  (probe.done /\ ProbeVisible /\ probe.value.t = "array" /\ probe.value.e # <<>>) =>
    LET rules == probe.field.rules
        short == rules.minLength.on /\ Len(probe.value.e) < rules.minLength.value
        long == rules.maxLength.on /\ Len(probe.value.e) > rules.maxLength.value
    IN /\ short => probe.result = Fail(rules.minLength.message)
       /\ (~short /\ long) => probe.result = Fail(rules.maxLength.message)

\* C16: validateSingleField(id) called right after setValue(id, v), for a
\* visible field with a required message R and a rule min = m with message M,
\* leaves errors[id] = M when v is a number below m, no error when v is a
\* number at or above m, and errors[id] = R when v is the empty string,
\* whatever the earlier validations left.
C16_MinIsInclusive ==
  [][(/\ op.name = "setValue"
      /\ op'.name = "validateSingleField"
      /\ op'.id = op.id
      /\ op.id \in Shown(schema, state)
      /\ schema.fields[op.id].rules.required.kind = "string"
      /\ schema.fields[op.id].rules.min.on) =>
       LET rules == schema.fields[op.id].rules
           v == state.values[op.id]
       IN /\ (v.t = "number" /\ ~IsNaN(v) /\ v.n < rules.min.value) =>
               /\ op.id \in DOMAIN state'.errors
               /\ state'.errors[op.id] = rules.min.message
          /\ (v.t = "number" /\ ~IsNaN(v) /\ v.n >= rules.min.value) =>
               op.id \notin DOMAIN state'.errors
          /\ v = Str(<<>>) =>
               /\ op.id \in DOMAIN state'.errors
               /\ state'.errors[op.id] = rules.required.msg]_vars

\* A number equal to the bound has been written to the field and validated:
\* the field carries no error.
C16_Witness ==
  /\ op.name = "validateSingleField"
  /\ schema.fields[op.id].rules.required.kind = "string"
  /\ schema.fields[op.id].rules.min.on
  /\ state.values[op.id] = Num(schema.fields[op.id].rules.min.value)
  /\ op.id \notin DOMAIN state.errors
  /\ op.ret = "true"

\* C17: evaluateCondition is true for an absent condition and for an empty
\* sequence, gives a single condition the result of the one-element sequence
\* holding it, gives a sequence the conjunction of the results of its
\* elements, and gives the same result each time it is evaluated on the same
\* condition and values.
C17_ConditionsAreConjoined ==
  \A k \in 1..Len(probe.results) :
    /\ probe.results[k] = probe.results[1]
    /\ probe.condition.form = "absent" => probe.results[k]
    /\ probe.condition.list = <<>> => probe.results[k]
    /\ probe.condition.form = "single" =>
         probe.results[k] = evaluateCondition(Many(probe.condition.list), probe.formValues)
    /\ probe.condition.form = "array" =>
         probe.results[k] =
           \A i \in 1..Len(probe.condition.list) :
             evaluateCondition(One(probe.condition.list[i]), probe.formValues)

\* A sequence of three conditions of which exactly one is false has been
\* evaluated twice, to false both times.
C17_Witness ==
  /\ Len(probe.results) = 2
  /\ probe.condition.form = "array"
  /\ Len(probe.condition.list) = 3
  /\ evaluateCondition(One(probe.condition.list[1]), probe.formValues)
  /\ ~evaluateCondition(One(probe.condition.list[2]), probe.formValues)
  /\ evaluateCondition(One(probe.condition.list[3]), probe.formValues)
  /\ probe.results = <<FALSE, FALSE>>

\* The one condition of a probed single condition, the value the form holds
\* for its field, and whether some evaluation has been made.
ProbedCondition == probe.condition.list[1]

ProbedFieldValue == Lookup(probe.formValues, ProbedCondition.field)

Evaluated(operator) ==
  /\ probe.results # <<>>
  /\ probe.condition.form = "single"
  /\ ProbedCondition.op = operator

\* Equality of type and value, with NaN equal to nothing and an array equal
\* to no other array.
SameTypeAndValue(x, y) ==
  /\ x.t = y.t
  /\ CASE x.t = "number" -> ~IsNaN(x) /\ ~IsNaN(y) /\ x.n = y.n
        [] x.t = "string" -> x.s = y.s
        [] x.t = "boolean" -> x.n = y.n
        [] x.t \in {"null", "undefined"} -> TRUE
        [] x.t = "array" -> FALSE

\* C18 as claimed: a notIn condition evaluates to false when condition.value
\* is a sequence that contains the field's value, and to true otherwise.
C18_NotInExcludesMembers ==
  Evaluated("notIn") =>
    probe.results[1] =
      ~(/\ ProbedCondition.value.t = "array"
        /\ \E i \in 1..Len(ProbedCondition.value.e) :
             SameTypeAndValue(ProbedCondition.value.e[i], ProbedFieldValue))

\* C19 as claimed: equals is true iff the field's value and condition.value
\* have the same type and value, notEquals is its negation, and in is true
\* iff condition.value is a sequence with an element of the same type and
\* value as the field's value.
C19_MembershipIsStrict ==
  /\ Evaluated("equals") =>
       probe.results[1] = SameTypeAndValue(ProbedFieldValue, ProbedCondition.value)
  /\ Evaluated("notEquals") =>
       probe.results[1] = ~SameTypeAndValue(ProbedFieldValue, ProbedCondition.value)
  /\ Evaluated("in") =>
       probe.results[1] =
         /\ ProbedCondition.value.t = "array"
         /\ \E i \in 1..Len(ProbedCondition.value.e) :
              SameTypeAndValue(ProbedCondition.value.e[i], ProbedFieldValue)

\* C19 amended: equals and notEquals compare by type and value; in is true
\* iff condition.value is a sequence with an element that has the same type
\* and value as the field's value, or that is NaN when the field's value is
\* NaN.
C19_MembershipIsSameValueZero ==
  /\ Evaluated("equals") =>
       probe.results[1] = SameTypeAndValue(ProbedFieldValue, ProbedCondition.value)
  /\ Evaluated("notEquals") =>
       probe.results[1] = ~SameTypeAndValue(ProbedFieldValue, ProbedCondition.value)
  /\ Evaluated("in") =>
       probe.results[1] =
         /\ ProbedCondition.value.t = "array"
         /\ \E i \in 1..Len(ProbedCondition.value.e) :
              \/ SameTypeAndValue(ProbedCondition.value.e[i], ProbedFieldValue)
              \/ IsNaN(ProbedCondition.value.e[i]) /\ IsNaN(ProbedFieldValue)

\* An in condition whose list holds NaN has been evaluated for a field that
\* holds NaN, to true.
C19_Witness ==
  /\ Evaluated("in")
  /\ IsNaN(ProbedFieldValue)
  /\ \E i \in 1..Len(ProbedCondition.value.e) : IsNaN(ProbedCondition.value.e[i])
  /\ probe.results[1]

\* C20: a greaterThan (lessThan) condition is false whenever the field's
\* value is not a number (absent, null, a string, even a numeric-looking
\* one) or is NaN, and against a numeric condition.value it is true iff the
\* field's value is a number strictly greater (less) than it, so equality
\* gives false.
C20_ComparisonNeedsNumber ==
  LET numeric == ProbedFieldValue.t = "number" /\ ~IsNaN(ProbedFieldValue)
      bound == ProbedCondition.value
      bounded == bound.t = "number" /\ ~IsNaN(bound)
  IN /\ (Evaluated("greaterThan") /\ ~numeric) => ~probe.results[1]
     /\ (Evaluated("lessThan") /\ ~numeric) => ~probe.results[1]
     /\ (Evaluated("greaterThan") /\ bounded) =>
          probe.results[1] = (numeric /\ ProbedFieldValue.n > bound.n)
     /\ (Evaluated("lessThan") /\ bounded) =>
          probe.results[1] = (numeric /\ ProbedFieldValue.n < bound.n)

\* A greaterThan condition with bound 2 has been evaluated for a field that
\* holds the string "3", to false.
C20_Witness ==
  /\ Evaluated("greaterThan")
  /\ ProbedCondition.value = Num(2)
  /\ ProbedFieldValue = Str(<<"3">>)
  /\ ~probe.results[1]

\* The operators evaluateCondition has a case for, and a sequence of
\* conditions without those of its elements whose operator has no case.
CaseOperators == {"equals", "notEquals", "in", "greaterThan", "lessThan"}

Recognised(list) == SelectSeq(list, LAMBDA cond : cond.op \in CaseOperators)

\* C21: a condition whose operator is none of equals, notEquals, in,
\* greaterThan and lessThan evaluates to true on its own, and a sequence of
\* conditions evaluates to what the sequence of its other conditions
\* evaluates to.
C21_UnknownOperatorPasses ==
  \A k \in 1..Len(probe.results) :
    /\ (probe.condition.form = "single" /\ ProbedCondition.op \notin CaseOperators)
         => probe.results[k]
    /\ probe.condition.form = "array" =>
         probe.results[k] =
           evaluateCondition(Many(Recognised(probe.condition.list)), probe.formValues)

\* A sequence of a condition with an unknown operator and an equals
\* condition that is false has been evaluated, to false.
C21_Witness ==
  /\ probe.results # <<>>
  /\ probe.condition.form = "array"
  /\ Len(probe.condition.list) = 2
  /\ probe.condition.list[1].op = "startsWith"
  /\ probe.condition.list[2].op = "equals"
  /\ ~EvalOne(probe.condition.list[2], probe.formValues)
  /\ ~probe.results[1]

\* No callback whose unsubscribe function has been called, and which has not
\* been subscribed since, is registered or was called by the last operation.
Silenced(hs, subs, calls) ==
  \A i \in 1..Len(hs) :
    hs[i].status = "called" =>
      /\ hs[i].of \notin Range(subs)
      /\ \A k \in 1..Len(calls) : calls[k].to # hs[i].of

\* C22 as claimed: once an unsubscribe function has been called, its
\* callback is passed no later notification (until it is subscribed again),
\* and calling that function again, at any later point, leaves the
\* registered observers as they are.
C22_SpentHandleNeverActs ==
  [][/\ Silenced(handles', subscribers', delivered')
     /\ (op'.name = "unsubscribe" /\ op'.ret \in {"called", "outdated"})
          => subscribers' = subscribers]_vars

\* C22 amended: once an unsubscribe function has been called, its callback
\* is passed no later notification until it is subscribed again, and
\* calling that function again before its callback is subscribed again
\* leaves the registered observers as they are.
C22_SpentHandleIdleUntilResubscribed ==
  [][/\ Silenced(handles', subscribers', delivered')
     /\ (op'.name = "unsubscribe" /\ op'.ret = "called")
          => subscribers' = subscribers]_vars

\* An unsubscribe function that had been called before has been called
\* again while another callback is registered.
C22_Witness ==
  /\ op.name = "unsubscribe"
  /\ op.ret = "called"
  /\ subscribers # <<>>
  /\ op.id \notin Range(subscribers)

\* The operations that change the store.
Mutators ==
  {"setValue", "setValues", "setTouched", "setTouchedMultiple", "setError",
   "validateSingleField", "validateAllFields", "handleSubmit", "settle", "reset",
   "resetField", "setSchema"}

\* C23: every mutating operation notifies at least once; each of its
\* notifications calls every registered callback once, in the order the
\* callbacks were registered, with the state of that moment; and the last
\* notification carries the state the operation leaves.
C23_EveryObserverNotifiedInOrder ==
  [][op'.name \in Mutators =>
       /\ Len(op'.log) >= 1
       /\ Len(delivered') = Len(op'.log) * Len(subscribers)
       /\ \A round \in 1..Len(op'.log) : \A i \in 1..Len(subscribers) :
            delivered'[(round - 1) * Len(subscribers) + i] =
              [to |-> subscribers[i], state |-> op'.log[round]]
       /\ op'.log[Len(op'.log)] = state']_vars

\* cb2 was registered before cb1, and setValue on a field that a touched
\* field depends on has notified twice: four calls, cb2 first each time.
C23_Witness ==
  /\ op.name = "setValue"
  /\ subscribers = <<"cb2", "cb1">>
  /\ Len(op.log) = 2
  /\ Len(delivered) = 4
  /\ delivered[3].to = "cb2"
  /\ delivered[4].state = state

\* C24 as claimed: an assignment to a key of the values, errors or touched
\* mapping of an object the engine handed out (by getState, getValues,
\* getErrors or a notification) leaves the store's state as it was.
C24_HandedOutObjectsAreCopies ==
  [][op'.name = "write" => state' = state]_vars

\* C25 as claimed: isDirty is false exactly when the values mapping equals
\* the initial snapshot, key by key (a key that is absent counting as
\* undefined).
C25_DirtyIffValuesDiffer ==
  isDirty(state, initialValues) = (state.values # Total(initialValues))

\* What the constructor's arguments determine for a field: the value the
\* caller gave, else the default the schema declares, else nothing.
Constructed(sch, given, id) ==
  IF id \in DOMAIN given THEN given[id]
  ELSE IF id \in Range(sch.order) THEN sch.fields[id].defaultValue
  ELSE Undef

\* C26: right after construction every field holds the value the caller
\* gave for it, else its declared default, else nothing; the initial
\* snapshot holds the same; errors and touched are empty, isSubmitting and
\* isValidating are false and submitCount is zero.
C26_ConstructionMergesDefaults ==
  op.name = "constructor" =>
    /\ \A id \in FieldIds :
         /\ state.values[id] = Constructed(schema, probe.given, id)
         /\ Lookup(initialValues, id) = state.values[id]
    /\ DOMAIN state.errors = {}
    /\ \A id \in FieldIds : ~state.touched[id]
    /\ ~state.isSubmitting
    /\ ~state.isValidating
    /\ state.submitCount = 0

\* The engine has just been constructed with {a: 3, b: null} over a schema
\* whose field a declares the default 2 and whose field b declares none.
C26_Witness ==
  /\ op.name = "constructor"
  /\ probe.given = [a |-> Num(3), b |-> Null]
  /\ schema.fields["a"].defaultValue = Num(2)
  /\ state.values = [a |-> Num(3), b |-> Null]

\* Every field of sch holds its declared default in st (nothing when it
\* declares none), there are no errors and no touched fields, the flags are
\* false and submitCount is zero.
AtDefaults(sch, st) ==
  /\ \A id \in FieldIds :
       st.values[id] = IF id \in Range(sch.order) THEN sch.fields[id].defaultValue
                                                   ELSE Undef
  /\ DOMAIN st.errors = {}
  /\ \A id \in FieldIds : ~st.touched[id]
  /\ ~st.isSubmitting
  /\ ~st.isValidating
  /\ st.submitCount = 0

Counters(st) == <<st.isSubmitting, st.isValidating, st.submitCount>>

\* Field id has the same value, the same error (or none) and the same
\* touched flag in st and in after.
SameField(st, after, id) ==
  /\ after.values[id] = st.values[id]
  /\ Lookup(after.errors, id) = Lookup(st.errors, id)
  /\ after.touched[id] = st.touched[id]

\* C28: resetField(id) gives id its value of the initial snapshot, removes
\* its error and its touched flag, and leaves the value, error and touched
\* flag of every other field, and isSubmitting, isValidating and submitCount,
\* as they were.
C28_ResetFieldTouchesOneField ==
  [][op'.name = "resetField" =>
       /\ state'.values[op'.id] = Lookup(initialValues, op'.id)
       /\ op'.id \notin DOMAIN state'.errors
       /\ ~state'.touched[op'.id]
       /\ \A other \in FieldIds \ {op'.id} : SameField(state, state', other)
       /\ Counters(state') = Counters(state)]_vars

\* resetField(a) has run during a submission: b, which depends on a, is
\* touched and fails validation against the restored value of a, and has no
\* error.
C28_Witness ==
  /\ op.name = "resetField"
  /\ op.id = "a"
  /\ state.isSubmitting
  /\ state.touched["b"]
  /\ "b" \in Failing(schema, state)
  /\ "b" \notin DOMAIN state.errors

\* C29: setValues(map) gives every key of map the value map holds for it,
\* leaves the value of every other field, empties the errors mapping, and
\* leaves the touched flags, isSubmitting, isValidating and submitCount as
\* they were.
C29_SetValuesMergesAndClearsErrors ==
  [][op'.name = "setValues" =>
       /\ \E i \in 1..Len(ValueMaps) :
            \A id \in FieldIds :
              state'.values[id] = IF id \in DOMAIN ValueMaps[i] THEN ValueMaps[i][id]
                                                                 ELSE state.values[id]
       /\ DOMAIN state'.errors = {}
       /\ state'.touched = state.touched
       /\ Counters(state') = Counters(state)]_vars

\* setValues({b: "x"}) has run on a form whose field a holds 1, below its
\* minimum, and is touched: a still holds 1 and there is no error.
C29_Witness ==
  /\ op.name = "setValues"
  /\ state.values = [a |-> Num(1), b |-> Str(<<"x">>)]
  /\ state.touched["a"]
  /\ "a" \in Failing(schema, state)
  /\ DOMAIN state.errors = {}

\* C30: setTouched and setTouchedMultiple leave the values, the errors,
\* isSubmitting, isValidating and submitCount as they were, and setTouched
\* leaves the touched flag of every other field as it was.
C30_TouchingChangesOnlyTouched ==
  [][op'.name \in {"setTouched", "setTouchedMultiple"} =>
       /\ state'.values = state.values
       /\ state'.errors = state.errors
       /\ Counters(state') = Counters(state)
       /\ op'.name = "setTouched" =>
            \A other \in FieldIds \ {op'.id} : state'.touched[other] = state.touched[other]]_vars

\* setTouched has marked field b, which is visible, required and empty: b
\* is touched and has no error.
C30_Witness ==
  /\ op.name = "setTouched"
  /\ op.id = "b"
  /\ state.touched["b"]
  /\ "b" \in Failing(schema, state)
  /\ DOMAIN state.errors = {}

\* C31: after setValue(id, v), getValue(id) returns v, every other field
\* has the value it had, and the touched flags, isSubmitting, isValidating
\* and submitCount are as they were.
C31_SetValueWritesOneValue ==
  [][op'.name = "setValue" =>
       /\ getValue(state', op'.id) = op'.arg
       /\ \A other \in FieldIds \ {op'.id} : getValue(state', other) = getValue(state, other)
       /\ state'.touched = state.touched
       /\ Counters(state') = Counters(state)]_vars

\* setValue(a, 1) has run during a submission, with b touched and carrying
\* an error before: a holds 1, b (now hidden, re-validated) has lost its
\* error and is still touched.
C31_Witness ==
  /\ op.name = "setValue"
  /\ op.id = "a"
  /\ op.arg = Num(1)
  /\ Len(op.log) = 2
  /\ state.values["a"] = Num(1)
  /\ state.touched["b"]
  /\ ~state.touched["a"]
  /\ state.isSubmitting

\* The places of a layout: a place is the sequence of child indexes that
\* leads from the layout to a node. The probed layouts are at most three
\* wide and three deep.
Places == UNION {[1..depth -> 1..3] : depth \in 1..3}

RECURSIVE Descend(_, _)
Descend(nodes, place) ==
  IF Len(place) = 1 THEN nodes[place[1]]
  ELSE Descend(nodes[place[1]].children, Tail(place))

RECURSIVE Exists(_, _)
Exists(nodes, place) ==
  /\ place[1] <= Len(nodes)
  /\ Len(place) > 1 => Exists(nodes[place[1]].children, Tail(place))

\* Place p comes before place q: p is an ancestor of q, or at the first
\* index where they part p takes the earlier sibling.
Before(p, q) ==
  \/ Len(p) < Len(q) /\ SubSeq(q, 1, Len(p)) = p
  \/ \E i \in 1..Len(p) :
       /\ i <= Len(q)
       /\ SubSeq(p, 1, i - 1) = SubSeq(q, 1, i - 1)
       /\ p[i] < q[i]

\* The places of the nodes of kind field that carry a fieldId.
FieldPlaces(layout) ==
  {p \in Places : /\ Exists(layout, p)
                  /\ Descend(layout, p).kind = "field"
                  /\ Descend(layout, p).fieldId # ""}

\* C32: getFieldIds returns one entry for each node of kind field that
\* carries a fieldId, wherever it is in the tree, and no other entry; the
\* entry of a node comes after those of the nodes before it: its ancestors
\* and the nodes under its earlier siblings and under the earlier siblings
\* of its ancestors.
C32_FieldIdsInDocumentOrder ==
  probe.done =>
    /\ Len(probe.result) = Cardinality(FieldPlaces(probe.layout))
    /\ \A p \in FieldPlaces(probe.layout) :
         probe.result[1 + Cardinality({q \in FieldPlaces(probe.layout) : Before(q, p)})]
           = Descend(probe.layout, p).fieldId

\* getFieldIds has run on [a, grid[b, a[b, a]], a]: a field node with field
\* children, inside a container, between two nodes of the same field.
C32_Witness ==
  /\ probe.done
  /\ Len(probe.layout) = 3
  /\ probe.layout[2].kind = "grid"
  /\ probe.layout[2].children[2].kind = "field"
  /\ Len(probe.layout[2].children[2].children) = 2
  /\ probe.result = <<"a", "b", "a", "b", "a", "a">>

\* The fields of the component's schema that values hides.
HiddenFields(values) == {id \in FieldIds : ~isVisible(schema.fields[id], values)}

\* C33: when the component's handleSubmit calls onSubmit, the object it
\* passes has no key of a field that is hidden at that moment; and a rule
\* violation of a hidden field does not keep handleSubmit from calling
\* onSubmit.
C33_HiddenValuesNotSubmitted ==
  probe.last = "handleSubmit" =>
    /\ \A i \in 1..Len(probe.calls) :
         DOMAIN probe.calls[i].values \cap HiddenFields(probe.values) = {}
    /\ (\A id \in DOMAIN validateFormAllFields(schema, probe.values) :
          id \in HiddenFields(probe.values)) => Len(probe.calls) = 1

\* C34: the effect sets errors to validateForm(schema, values) and calls
\* onChange once, with the values and those errors; every change of a value
\* leaves the effect to run; and whenever the effect has run, errors is
\* validateForm(schema, values) for the current values and holds no hidden
\* field.
C34_ErrorsFollowValues ==
  [][/\ probe'.last = "effect" =>
          /\ probe'.values = probe.values
          /\ probe'.errors = validateForm(schema, probe'.values)
          /\ probe'.calls = <<Call("onChange", probe'.values, probe'.errors)>>
     /\ probe'.last = "handleChange" => probe'.effect
     /\ probe'.values # probe.values => probe'.last = "handleChange"
     /\ ~probe'.effect =>
          /\ probe'.errors = validateForm(schema, probe'.values)
          /\ DOMAIN probe'.errors \cap HiddenFields(probe'.values) = {}]_vars

\* The effect has run after a was changed to "z", which hides b while b
\* holds a value that is too short: the errors hold a only.
C34_Witness ==
  /\ schema = FormSchemaTwo
  /\ probe.last = "effect"
  /\ probe.values = [a |-> Str(<<"z">>), b |-> Str(<<"x">>)]
  /\ probe.errors = [a |-> "Invalid"]
  /\ "b" \in probe.touched
  /\ probe.calls = <<Call("onChange", probe.values, [a |-> "Invalid"])>>

\* C35: a handleSubmit call made while the callback of an earlier call is
\* awaited runs like any other: it calls its callback at once, with the
\* visible values of that moment, exactly when no visible field of that
\* moment fails validation, and otherwise returns false without a call;
\* when the callback returned a promise, the call joins the awaited ones
\* and isSubmitting is set. Each settlement clears isSubmitting, whether
\* or not other calls are still awaited.
C35_OverlappingSubmitsRunIndependently ==
  [][/\ (op'.name = "handleSubmit" /\ pending # <<>>) =>
          /\ Len(op'.calls) = (IF Failing(schema, state) = {} THEN 1 ELSE 0)
          /\ Failing(schema, state) = {} =>
               op'.calls[1] = [id \in Shown(schema, state) |-> state.values[id]]
          /\ (Failing(schema, state) = {} /\ op'.thrown = "") =>
               /\ op'.ret = "pending"
               /\ pending' = Append(pending, Submitted(op'.calls[1]))
               /\ state'.isSubmitting
          /\ Failing(schema, state) # {} => (op'.ret = "false" /\ pending' = pending)
     /\ op'.name = "settle" =>
          /\ Len(pending') = Len(pending) - 1
          /\ ~state'.isSubmitting]_vars

\* A second handleSubmit has called its callback while the first call is
\* awaited, with other values than the first.
C35_Witness ==
  /\ op.name = "handleSubmit"
  /\ Len(op.calls) = 1
  /\ Len(pending) = 2
  /\ pending[1].values # pending[2].values
  /\ state.isSubmitting
  /\ state.submitCount = 2

\* C36: setValue, setTouched, setValues and reset, called while callbacks
\* are awaited, write the store at once (the value given, the flag given,
\* the values given with the errors emptied, the state of a new store), and
\* leave the awaited calls, and what each callback finds in the object it
\* was given, as they were.
C36_PendingValuesAreDetached ==
  [][(pending # <<>> /\ op'.name \in {"setValue", "setTouched", "setValues", "reset"}) =>
       /\ Len(pending') = Len(pending)
       /\ \A i \in 1..Len(pending) :
            HandedValues(pending'[i], state') = HandedValues(pending[i], state)
       /\ op'.name = "setValue" => state'.values[op'.id] = op'.arg
       /\ op'.name = "setTouched" => state'.touched[op'.id] = (op'.arg = Bool(TRUE))
       /\ op'.name = "setValues" =>
            /\ state'.errors = <<>>
            /\ \E i \in 1..Len(ValueMaps) :
                 \A id \in DOMAIN ValueMaps[i] : state'.values[id] = ValueMaps[i][id]
       /\ op'.name = "reset" => state' = emptyState(initialValues)]_vars

\* setValue wrote a = 1, which hides b, while a callback is awaited that
\* was given a = 3 and b.
C36_Witness ==
  /\ op.name = "setValue"
  /\ Len(pending) = 1
  /\ DOMAIN pending[1].values = {"a", "b"}
  /\ pending[1].values["a"] = Num(3)
  /\ state.values["a"] = Num(1)
  /\ state.isSubmitting

\* C37: every handleSubmit call adds one to submitCount in the step of the
\* call, whatever its outcome; reset and setSchema set it to zero; no other
\* operation, and no settlement of a callback, changes it. So between two
\* resets it counts the handleSubmit calls and never goes down.
C37_SubmitCountCountsCalls ==
  [][/\ op'.name = "handleSubmit" => state'.submitCount = state.submitCount + 1
     /\ op'.name \in {"reset", "setSchema"} => state'.submitCount = 0
     /\ op'.name \notin {"handleSubmit", "reset", "setSchema"} =>
          state'.submitCount = state.submitCount]_vars

\* A second handleSubmit call failed validation while the callback of the
\* first is awaited: both are counted.
C37_Witness ==
  /\ op.name = "handleSubmit"
  /\ op.ret = "false"
  /\ op.calls = <<>>
  /\ Len(pending) = 1
  /\ state.submitCount = 2

\* C38: in every state in which no handleSubmit call awaits its callback,
\* isSubmitting and isValidating are both false. (The operations are atomic
\* steps: none is executing in a state. That isSubmitting becomes false for
\* good once every callback has settled and no new call is made is this
\* invariant read in the states that follow the last settlement.)
C38_IdleStoreHasFlagsCleared ==
  pending = <<>> => (~state.isSubmitting /\ ~state.isValidating)

\* C39: when a handleSubmit call has settled (it returned false, or its
\* promise was rejected at once, or its callback settled), isSubmitting and
\* isValidating are false if no other call is awaited, and a failure
\* it signals to its caller is the failure its callback raised.
C39_PredicateFailureIsContained ==
  [][op'.name \in {"handleSubmit", "settle"} =>
       /\ (op'.ret # "pending" /\ pending' = <<>>) =>
            (~state'.isSubmitting /\ ~state'.isValidating)
       /\ op'.error # "" => op'.error = op'.thrown]_vars

\* C40: in every state reached by setValue, setTouched, validateSingleField,
\* validateAllFields and handleSubmit, every field that has an entry in
\* errors is visible; so when isValid is false, a visible field has an error.
C40_NoErrorOnHiddenField ==
  /\ \A id \in DOMAIN state.errors : id \in Shown(schema, state)
  /\ ~isValid(state) => \E id \in Shown(schema, state) : id \in DOMAIN state.errors

====
